---------------------------- MODULE Spec2Model ----------------------------
(***************************************************************************)
(* docker-logproxy: the log-stream filter (LogsFilterReader), the          *)
(* retrieval services (Service.GetContainerLogs and the earlier            *)
(* ContainerLogService.GetContainerLogs) and the Collector's run loop.     *)
(*                                                                         *)
(* Three state machines share this module, each with its own               *)
(* specification; the variables of the machines a specification does not   *)
(* run stay at their idle values:                                          *)
(*   SpecFilter     one LogsFilterReader drained by successive Read calls  *)
(*   SpecService    one GetContainerLogs call and the read of its stream   *)
(*   SpecCollector  one Collector.Run with its capture tasks               *)
(*   FairCollector  SpecCollector with the scheduler's fairness            *)
(***************************************************************************)
EXTENDS Integers, Sequences, FiniteSets, TLC

VARIABLES
    \* ---- the stream a caller reads (SpecFilter, SpecService)
    reading,    \* what the caller reads: "none", "filter" (a LogsFilterReader), "ndjson" (the Service's pipe)
    got,        \* the bytes delivered to the caller so far
    lastN,      \* n of the last Read
    lastErr,    \* err of the last Read ("nil" while the stream goes on)
    \* ---- LogsFilterReader
    frames,     \* the frames the source carries: <<stream, size>> each
    cut,        \* bytes missing at the end of the source (0: it ends at a frame boundary)
    r,          \* the LogsFilterReader: [rc, includeStdout, includeStderr, tty, cur]
    zeroSkips,  \* zero-length frames the Read calls have passed over
    \* ---- GetContainerLogs and handleLogs (SpecService)
    impl,       \* "Service" (internal/log) or "ContainerLogService" (dockerlogproxy)
    recs,       \* the records of the container's log, in order
    docker,     \* what the monitor holds for the container: "live", "absent", "failing"
    disk,       \* the storage: [logs, denied, index]
    entry,      \* how the request came in: "none", "direct", "http"
    params,     \* the stdout and stderr parameters of the HTTP request
    query,      \* the Query handed to GetContainerLogs
    ret,        \* what GetContainerLogs returned: [ok, err]
    source,     \* where the returned stream comes from: "none", "docker", "storage"
    body,       \* the NDJSON bytes the Service's goroutine has not decoded yet
    fetches,    \* calls of FetchContainerLogs
    opens,      \* calls of Storage.Open
    status,     \* the HTTP status written (0: none)
    \* ---- Collector (SpecCollector, FairCollector)
    cpc,        \* where Run is: "idle", "watching", "shutdown", "returned"
    runErr,     \* the error Run returns (nil before it leaves the loop)
    parentCancelled, \* the context passed to Run has been cancelled
    cancelCalled,    \* Run's deferred cancel() has been called
    wg,         \* the counter of c.wg
    tasks,      \* the capture tasks spawned: [Name, pc], pc "started", "copying", "done"
    listing,    \* what ListContainers answers: [err, containers]
    options,    \* CollectorOptions.Containers
    mon,        \* the goroutine of WatchContainersStart: "off", "running", "offering", "closed"
    offer,      \* the container it is sending on eventCh
    errBuf,     \* the error buffered in errCh (nil when none)
    events,     \* container start messages Docker has delivered
    seen,       \* the names Run has passed to shouldWatchContainer, in order
    created,    \* the names Storage.Create has been called with
    \* ---- ndjsonWriter (SpecWriter)
    wr,         \* the ndjsonWriter: [stream, buf]
    wInput,     \* the bytes its caller has to write
    wPos,       \* how many of them have been written
    wWrites,    \* calls of Write
    wClosed,    \* Close has been called
    emitted,    \* the records handed to the encoder, in order
    wOut,       \* the bytes the encoder has written
    \* ---- LogStorage (SpecStorage)
    sver,       \* the LogStorage in use: "none", "index" (with the NameIndex), "metafile" (the earlier one)
    sroot,      \* the root directory: "ok", "missing", "unreadable"
    sdisk,      \* what the root holds under each key: [meta, log]
    sindex,     \* containerIDByName
    sret,       \* the last call and its result: [op, arg, err, id]
    fresh,      \* containers created by this process, no later Create having their name
    succeeded,  \* containers whose Create succeeded in this process
    earlier,    \* containers whose Create succeeded in an earlier process
    \* ---- collectContainerLogs (SpecCapture)
    cap,        \* one call: [pc, live, ends, written, err]
    capCtxDone, \* its context is done
    \* ---- the stream of GetContainerLogs and its Close (SpecStream, FairStream)
    pimpl,      \* the stream handed to the caller: "none", "pipe" (Service), "filter" (LogsFilterReader)
    pending,    \* what the source has still to deliver: one flag per record, TRUE when the query selects it
    srcMode,    \* what the source does after that: "eof", "silent"
    gpc,        \* the goroutine of GetContainerLogs: "none", "decode", "write", "exited"
    closes,     \* calls of Close by the caller
    rcCloses,   \* calls of Close on the source
    \* ---- the log file of one container under repeated Create (SpecLogFile)
    lfile,      \* the bytes of the log file of one container, 0 for a byte of a hole
    lhandles,   \* the files Create returned for it: [off, open] each
    lwritten,   \* every byte written through those files, in the order of the writes
    \* ---- run and its errgroup (SpecProgram, FairProgram)
    g,          \* the errgroup of run: [collector, shutdown, listen, err, waited]
    srv,        \* the http.Server: "none", "new", "serving", "closed"
    unseen      \* the workloads started between the listing and the subscription

readVars == <<reading, got, lastN, lastErr>>
filterVars == <<frames, cut, r, zeroSkips>>
serviceVars == <<impl, recs, docker, disk, entry, params, query, ret, source, body,
                 fetches, opens, status>>
collectorVars == <<cpc, runErr, parentCancelled, cancelCalled, wg, tasks, listing,
                   options, mon, offer, errBuf, events, seen, created>>
writerVars == <<wr, wInput, wPos, wWrites, wClosed, emitted, wOut>>
storageVars == <<sver, sroot, sdisk, sindex, sret, fresh, succeeded, earlier>>
captureVars == <<cap, capCtxDone>>
streamVars == <<pimpl, pending, srcMode, gpc, closes, rcCloses>>
logFileVars == <<lfile, lhandles, lwritten>>
programVars == <<g, srv, unseen>>
vars == <<readVars, filterVars, serviceVars, collectorVars, writerVars, storageVars,
          captureVars,
          streamVars,
          logFileVars,
          programVars>>

\* what the actions of one machine leave alone
notServiceVars == <<collectorVars, writerVars, storageVars, captureVars,
    streamVars,
    logFileVars,
    programVars>>
notCollectorVars == <<readVars, filterVars, serviceVars, writerVars, storageVars,
                      captureVars,
    streamVars,
    logFileVars,
    programVars>>
notWriterVars == <<readVars, filterVars, serviceVars, collectorVars, storageVars,
                   captureVars,
    streamVars,
    logFileVars,
    programVars>>
notStorageVars == <<readVars, filterVars, serviceVars, collectorVars, writerVars,
                    captureVars,
    streamVars,
    logFileVars,
    programVars>>
notCaptureVars == <<readVars, filterVars, serviceVars, collectorVars, writerVars,
                    storageVars,
    streamVars,
    logFileVars,
    programVars>>
notStreamVars == <<readVars, filterVars, serviceVars, collectorVars, writerVars, storageVars, captureVars,
    logFileVars,
    programVars>>
notLogFileVars == <<readVars, filterVars, serviceVars, collectorVars, writerVars, storageVars, captureVars, streamVars,
    programVars>>
notProgramVars == <<readVars, filterVars, serviceVars, collectorVars, writerVars, storageVars, captureVars, streamVars, logFileVars>>

-----------------------------------------------------------------------------
(* Bounds of the model *)

\* frames in a source
MaxFrames == 2
\* payload bytes in a frame
MaxPayload == 2
\* len(p) of a Read call
MaxBuf == 2

-----------------------------------------------------------------------------
(* Helpers *)

Min(a, b) == IF a < b THEN a ELSE b

Take(s, n) == SubSeq(s, 1, Min(n, Len(s)))

Drop(s, n) == SubSeq(s, Min(n, Len(s)) + 1, Len(s))

RECURSIVE Flatten(_)
Flatten(ss) == IF ss = <<>> THEN <<>> ELSE Head(ss) \o Flatten(Tail(ss))

-----------------------------------------------------------------------------
(* The multiplexed stream format read by LogsFilterReader.Read             *)

\* var hdr [8]byte
HeaderLen == 8

\* one byte holds 0..255
ByteBase == 256

\* stream == 1: stdout
StdoutSelector == 1

\* stream == 2: stderr
StderrSelector == 2

\* binary.BigEndian.Uint32(b)
BigEndianUint32(b) ==
    ((b[1] * ByteBase + b[2]) * ByteBase + b[3]) * ByteBase + b[4]

\* the four bytes binary.BigEndian.Uint32 reads back as n
PutUint32(n) ==
    << (n \div (ByteBase * ByteBase * ByteBase)) % ByteBase,
       (n \div (ByteBase * ByteBase)) % ByteBase,
       (n \div ByteBase) % ByteBase,
       n % ByteBase >>

\* The payload of the i-th frame of a source: every payload byte of a source
\* is different from every other one, and from the selector bytes.
PayloadOf(i, size) == [j \in 1..size |-> 16 * i + j]

\* One frame on the wire: selector, three padding bytes, length, payload.
FrameBytes(i, f) ==
    <<f[1], 0, 0, 0>> \o PutUint32(f[2]) \o PayloadOf(i, f[2])

\* The wire bytes of a frame sequence.
Mux(fs) == Flatten([i \in 1..Len(fs) |-> FrameBytes(i, fs[i])])

\* The source as the reader sees it: the frames' bytes less the last `c`.
SourceBytes(fs, c) == Take(Mux(fs), Len(Mux(fs)) - c)

-----------------------------------------------------------------------------
(* io primitives over a finite source.  A result is                         *)
(* [n, err, data, rest]: rest is what the source still holds.               *)

\* rc.Read(p) with len(p) = size: the source hands over 1..size bytes (k says
\* how many it has ready), or (0, EOF) when it is exhausted; with `eager` it
\* reports EOF together with its last bytes.
SourceRead(rc, size, k, eager) ==
    IF size = 0 THEN [n |-> 0, err |-> "nil", data |-> <<>>, rest |-> rc]
    ELSE IF rc = <<>> THEN [n |-> 0, err |-> "EOF", data |-> <<>>, rest |-> rc]
    ELSE LET n == Min(Min(k, size), Len(rc)) IN
         [n |-> n,
          err |-> IF n = Len(rc) /\ eager THEN "EOF" ELSE "nil",
          data |-> Take(rc, n),
          rest |-> Drop(rc, n)]

\* io.ReadFull(r.rc, hdr[:])
ReadFullShortIsEOF(rc, size) ==
    IF Len(rc) >= size
    THEN [n |-> size, err |-> "nil", data |-> Take(rc, size), rest |-> Drop(rc, size)]
    ELSE [n |-> Len(rc), err |-> "EOF", data |-> rc, rest |-> <<>>]

ReadFull(rc, size) ==
    IF Len(rc) >= size
    THEN [n |-> size, err |-> "nil", data |-> Take(rc, size), rest |-> Drop(rc, size)]
    ELSE [n |-> Len(rc),
          err |-> IF Len(rc) = 0 THEN "EOF" ELSE "ErrUnexpectedEOF",
          data |-> rc, rest |-> <<>>]

\* io.CopyN(io.Discard, r.rc, size), mutated: the last byte is left unread
CopyNOneShort(rc, size) ==
    [n |-> size, err |-> "nil", data |-> <<>>, rest |-> Drop(rc, size - 1)]

\* io.CopyN(io.Discard, r.rc, size): a source that ends early gives io.EOF
CopyNKeepsPayload(rc, size) ==
    [n |-> 0, err |-> "nil", data |-> <<>>, rest |-> rc]

CopyN(rc, size) ==
    IF Len(rc) >= size
    THEN [n |-> size, err |-> "nil", data |-> <<>>, rest |-> Drop(rc, size)]
    ELSE [n |-> Len(rc), err |-> "EOF", data |-> <<>>, rest |-> <<>>]

\* (*io.LimitedReader).Read(p) with N = limit > 0
LimitedReaderRead(rc, limit, size, k, eager) ==
    SourceRead(rc, Min(size, limit), k, eager)

-----------------------------------------------------------------------------
(* LogsFilterReader                                                         *)

\* NewLogsFilterReader(rc, includeStdout, includeStderr, tty); cur = 0 is nil
NewLogsFilterReader(rc, includeStdout, includeStderr, tty) ==
    [rc |-> rc, includeStdout |-> includeStdout,
     includeStderr |-> includeStderr, tty |-> tty, cur |-> 0]

\* isIncluded := (stream == 1 && r.includeStdout) || (stream == 2 && r.includeStderr)
IsIncludedFrame(rd, stream) ==
    \/ stream = StdoutSelector /\ rd.includeStdout
    \/ stream = StderrSelector /\ rd.includeStderr

\* One call of Read(p), len(p) = size: the reader after it, what it returned
\* and the zero-length frames it passed over.
RECURSIVE ReadNonTTY(_, _, _, _, _)
ReadNonTTY(rd, size, k, eager, skipped) ==
    IF rd.cur # 0
    THEN LET res == LimitedReaderRead(rd.rc, rd.cur, size, k, eager) IN
         [rd |-> [rd EXCEPT !.rc = res.rest, !.cur = rd.cur - res.n],
          n |-> res.n, err |-> res.err, data |-> res.data, skipped |-> skipped]
    ELSE LET hdr == ReadFull(rd.rc, HeaderLen) IN
         IF hdr.err # "nil"
         THEN [rd |-> [rd EXCEPT !.rc = hdr.rest],
               n |-> 0, err |-> hdr.err, data |-> <<>>, skipped |-> skipped]
         ELSE LET stream == hdr.data[1]
                  len == BigEndianUint32(SubSeq(hdr.data, 5, 8))
              IN  IF len = 0
                  THEN ReadNonTTY([rd EXCEPT !.rc = hdr.rest], size, k, eager, skipped + 1)
                  ELSE IF ~IsIncludedFrame(rd, stream)
                  THEN LET c == CopyN(hdr.rest, len) IN
                       IF c.err # "nil"
                       THEN [rd |-> [rd EXCEPT !.rc = c.rest],
                             n |-> 0, err |-> c.err, data |-> <<>>, skipped |-> skipped]
                       ELSE ReadNonTTY([rd EXCEPT !.rc = c.rest], size, k, eager, skipped)
                  ELSE ReadNonTTY([rd EXCEPT !.rc = hdr.rest, !.cur = len],
                                  size, k, eager, skipped)

\* if r.tty { return r.rc.Read(p) }
ReadTTY(rd, size, k, eager) ==
    LET res == SourceRead(rd.rc, size, k, eager) IN
    [rd |-> [rd EXCEPT !.rc = res.rest],
     n |-> res.n, err |-> res.err, data |-> res.data, skipped |-> 0]

\* func (r *LogsFilterReader) Read(p []byte) (n int, err error)
ReaderRead(rd, size, k, eager) ==
    IF rd.tty THEN ReadTTY(rd, size, k, eager)
    ELSE ReadNonTTY(rd, size, k, eager, 0)

\* the sizes of the buffer handed to Read: io.Copy of handleLogs keeps one
\* buffer, another caller may come with any
BufSizes == IF entry = "http" THEN {MaxBuf} ELSE 1..MaxBuf

\* The caller reads until Read reports an error (io.Copy, io.ReadAll).
Read ==
    /\ reading = "filter"
    /\ lastErr = "nil"
    /\ \E size \in BufSizes :
       \E k \in 1..size :
       \E eager \in BOOLEAN :
             LET res == ReaderRead(r, size, k, eager) IN
             /\ r' = res.rd
             /\ got' = got \o res.data
             /\ lastN' = res.n
             /\ lastErr' = res.err
             /\ zeroSkips' = zeroSkips + res.skipped
    /\ UNCHANGED <<reading, frames, cut, serviceVars, notServiceVars>>

\* No LogStorage is in the model.
StorageIdle ==
    /\ sver = "none" /\ sroot = "missing"
    /\ sdisk = <<>> /\ sindex = <<>>
    /\ sret = [op |-> "none", arg |-> "", err |-> <<>>, id |-> "", after |-> ""]
    /\ fresh = {} /\ succeeded = {} /\ earlier = {}

\* No ndjsonWriter is in the model.
WriterIdle ==
    /\ wr = [stream |-> "", buf |-> <<>>]
    /\ wInput = <<>> /\ wPos = 0 /\ wWrites = 0 /\ wClosed = FALSE
    /\ emitted = <<>> /\ wOut = <<>>

\* Run has not been called.
CollectorIdle ==
    /\ cpc = "idle" /\ runErr = <<>>
    /\ parentCancelled = FALSE /\ cancelCalled = FALSE
    /\ wg = 0 /\ tasks = <<>>
    /\ listing = [err |-> FALSE, containers |-> <<>>] /\ options = <<>>
    /\ mon = "off" /\ offer = "" /\ errBuf = <<>> /\ events = 0
    /\ seen = <<>> /\ created = {}

\* No stream has been handed out.
StreamIdle ==
    /\ pimpl = "none" /\ pending = <<>> /\ srcMode = "eof"
    /\ gpc = "none" /\ closes = 0 /\ rcCloses = 0

\* No log file is in the model.
LogFileIdle ==
    /\ lfile = <<>> /\ lhandles = <<>> /\ lwritten = <<>>

\* run has not been called.
ProgramIdle ==
    /\ g = [collector |-> "none", shutdown |-> "none", listen |-> "none",
            err |-> <<>>, waited |-> FALSE]
    /\ srv = "none" /\ unseen = <<>>

\* No call of collectContainerLogs is followed.
CaptureIdle ==
    /\ cap = [pc |-> "none", live |-> <<>>, ends |-> "", written |-> <<>>, err |-> <<>>,
            rc |-> "none", f |-> "none"]
    /\ capCtxDone = FALSE

\* No request is in the model.
ServiceIdle ==
    /\ impl = "none" /\ recs = <<>> /\ docker = "absent"
    /\ disk = [logs |-> {}, denied |-> {}, index |-> {}]
    /\ entry = "none" /\ params = <<"", "">>
    /\ query = [ContainerName |-> "", IncludeStdout |-> FALSE, IncludeStderr |-> FALSE]
    /\ ret = [ok |-> FALSE, err |-> <<>>]
    /\ source = "none" /\ body = <<>> /\ fetches = 0 /\ opens = 0 /\ status = 0

FrameSeqs ==
    UNION {[1..n -> {StdoutSelector, StderrSelector} \X (0..MaxPayload)] :
             n \in 0..MaxFrames}

\* The source ends at a frame boundary, inside the header of its last frame
\* or inside that frame's payload.
Cuts(fs) ==
    IF fs = <<>> THEN {0} ELSE 0..(HeaderLen + fs[Len(fs)][2] - 1)

InitFilter ==
    /\ frames \in FrameSeqs
    /\ cut \in Cuts(frames)
    /\ \E includeStdout \in BOOLEAN, includeStderr \in BOOLEAN, tty \in BOOLEAN :
          \* a TTY source carries no frames: any byte sequence will do
          /\ tty => cut = 0
          /\ r = NewLogsFilterReader(SourceBytes(frames, cut),
                                     includeStdout, includeStderr, tty)
    /\ reading = "filter"
    /\ got = <<>> /\ lastN = 0 /\ lastErr = "nil" /\ zeroSkips = 0
    /\ ServiceIdle
    /\ CollectorIdle
    /\ WriterIdle
    /\ StorageIdle
    /\ CaptureIdle
    /\ StreamIdle
    /\ LogFileIdle
    /\ ProgramIdle

NextFilter == Read

SpecFilter == InitFilter /\ [][NextFilter]_vars

-----------------------------------------------------------------------------
(* Errors: an error is the chain errors.Unwrap walks, outermost first;     *)
(* <<>> is nil.                                                            *)

Nil == <<>>

ErrorCodeContainerNotFound == "CONTAINER_NOT_FOUND"

\* &Error{Code: code, Message: ...}
NewError(code) == <<[type |-> "Error", code |-> code]>>

\* fmt.Errorf(msg + ": %v", err), a mutation of Wrapf: the cause is not kept
WrapfOpaque(msg, err) == <<[type |-> "errorString", code |-> msg]>>

\* fmt.Errorf(msg + ": %w", err)
Wrapf(msg, err) == <<[type |-> "wrapError", code |-> msg]>> \o err

\* the *os.PathError of a failed os.Open
PathError(errno) == <<[type |-> "PathError", code |-> errno]>>

\* an error of the Docker client that is not a not-found
DaemonError == <<[type |-> "errorString", code |-> "daemon"]>>

\* errors.As(err, &derr): the outermost *Error of the chain, or none
RECURSIVE ErrorsAs(_)
ErrorsAs(err) ==
    IF err = Nil THEN Nil
    ELSE IF Head(err).type = "Error" THEN <<Head(err)>>
    ELSE ErrorsAs(Tail(err))

\* the not-found test of the Service, mutated: any error counts
IsAnyError(err) == err # Nil

\* errors.As(err, &derr) && derr.Code == ErrorCodeContainerNotFound
IsContainerNotFound(err) ==
    /\ ErrorsAs(err) # Nil
    /\ ErrorsAs(err)[1].code = ErrorCodeContainerNotFound

\* os.IsNotExist(err): looks at the error itself, not through fmt wrappers
OsIsNotExist(err) ==
    /\ err # Nil
    /\ Head(err).type = "PathError"
    /\ Head(err).code = "ENOENT"

-----------------------------------------------------------------------------
(* The NDJSON record codec: one JSON object per line.  Bytes are numbers;  *)
(* the member names are shortened to one letter each.                      *)

StreamTypeStdout == "stdout"
StreamTypeStderr == "stderr"

Quote == 34
Backslash == 92
Newline == 10
LetterN == 110
Colon == 58
Comma == 44
OpenBrace == 123
CloseBrace == 125
KeyTimestamp == 116
KeyStream == 115
KeyOutput == 111
Digit0 == 48

\* the JSON string of a StreamType
StreamBytes(st) ==
    IF st = StreamTypeStdout THEN <<111>>
    ELSE IF st = StreamTypeStderr THEN <<101>>
    ELSE <<63>>

StreamOfBytes(b) ==
    IF b = <<111>> THEN StreamTypeStdout
    ELSE IF b = <<101>> THEN StreamTypeStderr
    ELSE "other"

\* a byte that no UTF-8 encoding contains
InvalidByte == 255

\* U+FFFD in UTF-8, and the escape the encoder writes for it
ReplacementChar == <<239, 191, 189>>
EscapedReplacement == <<92, 117, 102, 102, 102, 100>>

\* the encoder's string escaping; the string is coerced to valid UTF-8, a
\* byte that is not part of an encoding becoming U+FFFD
RECURSIVE Escape(_)
Escape(s) ==
    IF s = <<>> THEN <<>>
    ELSE (IF Head(s) = Quote THEN <<Backslash, Quote>>
          ELSE IF Head(s) = Backslash THEN <<Backslash, Backslash>>
          ELSE IF Head(s) = Newline THEN <<Backslash, LetterN>>
          ELSE IF Head(s) = InvalidByte THEN EscapedReplacement
          ELSE <<Head(s)>>) \o Escape(Tail(s))

JSONString(s) == <<Quote>> \o Escape(s) \o <<Quote>>

Member(key, val) == JSONString(<<key>>) \o <<Colon>> \o JSONString(val)

\* json.NewEncoder(w).Encode(rec): timestamp,omitzero; stream; output; "\n"
EncodeRecord(rec) ==
    <<OpenBrace>>
    \o (IF rec.Timestamp = 0 THEN <<>>
        ELSE Member(KeyTimestamp, <<Digit0 + rec.Timestamp>>) \o <<Comma>>)
    \o Member(KeyStream, StreamBytes(rec.Stream)) \o <<Comma>>
    \o Member(KeyOutput, rec.Log)
    \o <<CloseBrace, Newline>>

EncodeRecords(rs) == Flatten([i \in 1..Len(rs) |-> EncodeRecord(rs[i])])

\* a JSON string, the opening quote already consumed: [err, val, rest].  Of
\* the \u escapes only the one the encoder writes is read.
RECURSIVE ScanString(_, _)
ScanString(b, acc) ==
    IF b = <<>> THEN [err |-> "ErrUnexpectedEOF", val |-> acc, rest |-> b]
    ELSE IF Head(b) = Quote THEN [err |-> "nil", val |-> acc, rest |-> Tail(b)]
    ELSE IF Head(b) = Newline THEN [err |-> "SyntaxError", val |-> acc, rest |-> b]
    ELSE IF Head(b) = InvalidByte THEN ScanString(Tail(b), acc \o ReplacementChar)
    ELSE IF Head(b) # Backslash THEN ScanString(Tail(b), Append(acc, Head(b)))
    ELSE IF Len(b) < 2 THEN [err |-> "ErrUnexpectedEOF", val |-> acc, rest |-> <<>>]
    ELSE IF Take(b, 6) = EscapedReplacement THEN
        ScanString(Drop(b, 6), acc \o ReplacementChar)
    ELSE IF b[2] = Quote THEN ScanString(Drop(b, 2), Append(acc, Quote))
    ELSE IF b[2] = Backslash THEN ScanString(Drop(b, 2), Append(acc, Backslash))
    ELSE IF b[2] = LetterN THEN ScanString(Drop(b, 2), Append(acc, Newline))
    ELSE [err |-> "SyntaxError", val |-> acc, rest |-> b]

\* a quoted string: [err, val, rest]
ParseString(b) ==
    IF b = <<>> THEN [err |-> "ErrUnexpectedEOF", val |-> <<>>, rest |-> b]
    ELSE IF Head(b) # Quote THEN [err |-> "SyntaxError", val |-> <<>>, rest |-> b]
    ELSE ScanString(Tail(b), <<>>)

ZeroRecord == [Timestamp |-> 0, Stream |-> "", Log |-> <<>>]

\* the member set on the record; an unknown name is ignored
SetField(rec, key, val) ==
    IF key = <<KeyTimestamp>> THEN [rec EXCEPT !.Timestamp = val[1] - Digit0]
    ELSE IF key = <<KeyStream>> THEN
        [rec EXCEPT !.Stream = StreamOfBytes(val)]
    ELSE IF key = <<KeyOutput>> THEN [rec EXCEPT !.Log = val]
    ELSE rec

\* a timestamp that time.Time cannot parse
BadTimestamp(key, val) ==
    /\ key = <<KeyTimestamp>>
    /\ ~(Len(val) = 1 /\ val[1] \in Digit0..(Digit0 + 9))

\* the members of an object, the opening brace already consumed
RECURSIVE ParseMembers(_, _)
ParseMembers(b, rec) ==
    LET k == ParseString(b) IN
    IF k.err # "nil" THEN [err |-> k.err, rec |-> rec, rest |-> k.rest]
    ELSE IF k.rest = <<>> THEN [err |-> "ErrUnexpectedEOF", rec |-> rec, rest |-> <<>>]
    ELSE IF Head(k.rest) # Colon THEN [err |-> "SyntaxError", rec |-> rec, rest |-> k.rest]
    ELSE
        LET v == ParseString(Tail(k.rest)) IN
        IF v.err # "nil" THEN [err |-> v.err, rec |-> rec, rest |-> v.rest]
        ELSE IF v.rest = <<>> THEN [err |-> "ErrUnexpectedEOF", rec |-> rec, rest |-> <<>>]
        ELSE IF BadTimestamp(k.val, v.val) THEN
            [err |-> "ParseError", rec |-> rec, rest |-> v.rest]
        ELSE IF Head(v.rest) = Comma THEN
            ParseMembers(Tail(v.rest), SetField(rec, k.val, v.val))
        ELSE IF Head(v.rest) = CloseBrace THEN
            [err |-> "nil", rec |-> SetField(rec, k.val, v.val), rest |-> Tail(v.rest)]
        ELSE [err |-> "SyntaxError", rec |-> rec, rest |-> v.rest]

RECURSIVE SkipSpace(_)
SkipSpace(b) ==
    IF b # <<>> /\ Head(b) = Newline THEN SkipSpace(Tail(b)) ELSE b

\* dec.Decode(&rec), mutated: input that ends inside a record is the end
DecodeTruncatedIsEOF(b) ==
    LET s == SkipSpace(b) IN
    IF s = <<>> THEN [err |-> "EOF", rec |-> ZeroRecord, rest |-> <<>>]
    ELSE IF Head(s) # OpenBrace THEN [err |-> "SyntaxError", rec |-> ZeroRecord, rest |-> s]
    ELSE LET m == ParseMembers(Tail(s), ZeroRecord) IN
         [m EXCEPT !.err = IF @ = "ErrUnexpectedEOF" THEN "EOF" ELSE @]

\* dec.Decode(&rec) on the bytes not yet decoded: [err, rec, rest]
Decode(b) ==
    LET s == SkipSpace(b) IN
    IF s = <<>> THEN [err |-> "EOF", rec |-> ZeroRecord, rest |-> <<>>]
    ELSE IF Head(s) # OpenBrace THEN [err |-> "SyntaxError", rec |-> ZeroRecord, rest |-> s]
    ELSE ParseMembers(Tail(s), ZeroRecord)

-----------------------------------------------------------------------------
(* The monitor and the storage behind GetContainerLogs                      *)

MaxRecs == 2

ContainerName == "web"
ContainerID == "c1"

\* the error of FetchContainerLogs
FetchContainerLogs(dk) ==
    IF dk = "live" THEN Nil
    ELSE IF dk = "absent" THEN NewError(ErrorCodeContainerNotFound)
    ELSE Wrapf("get Docker container logs", DaemonError)

\* os.Open of the log file kept under key
OsOpen(d, key) ==
    IF key \notin d.logs THEN PathError("ENOENT")
    ELSE IF key \in d.denied THEN PathError("EACCES")
    ELSE Nil

\* LogStorage.Open, mutated: a missing file is reported as the os reports it
LogStorageOpenRaw(d, containerNameOrID) ==
    IF OsOpen(d, containerNameOrID) = Nil THEN Nil
    ELSE IF containerNameOrID \notin DOMAIN d.index THEN PathError("ENOENT")
    ELSE OsOpen(d, d.index[containerNameOrID])

\* the error of LogStorage.Open
LogStorageOpen(d, containerNameOrID) ==
    IF OsOpen(d, containerNameOrID) = Nil THEN Nil
    ELSE IF ~OsIsNotExist(OsOpen(d, containerNameOrID)) THEN
        Wrapf("open log file", OsOpen(d, containerNameOrID))
    ELSE IF containerNameOrID \notin DOMAIN d.index THEN
        NewError(ErrorCodeContainerNotFound)
    ELSE
        LET err == OsOpen(d, d.index[containerNameOrID]) IN
        IF OsIsNotExist(err) THEN NewError(ErrorCodeContainerNotFound)
        ELSE IF err # Nil THEN Wrapf("open log file", err)
        ELSE Nil

\* the error of Filesystem.Open
FilesystemOpen(d, name) == OsOpen(d, name)

\* Service.GetContainerLogs up to the pipe: [err, source, fetches, opens]
ServiceGetContainerLogs(dk, d, q) ==
    LET err == FetchContainerLogs(dk) IN
    IF IsContainerNotFound(err) THEN
        LET oerr == LogStorageOpen(d, q.ContainerName) IN
        IF IsContainerNotFound(oerr) THEN
            [err |-> oerr, source |-> "none", fetches |-> 1, opens |-> 1]
        ELSE IF oerr # Nil THEN
            [err |-> Wrapf("open log file", oerr), source |-> "none",
             fetches |-> 1, opens |-> 1]
        ELSE [err |-> Nil, source |-> "storage", fetches |-> 1, opens |-> 1]
    ELSE IF err # Nil THEN
        [err |-> Wrapf("fetch container logs", err), source |-> "none",
         fetches |-> 1, opens |-> 0]
    ELSE [err |-> Nil, source |-> "docker", fetches |-> 1, opens |-> 0]

\* ContainerLogService.GetContainerLogs: [err, source, fetches, opens]
ContainerLogServiceGetContainerLogs(dk, d, q) ==
    LET err == FetchContainerLogs(dk) IN
    IF err # Nil THEN
        IF IsContainerNotFound(err) THEN
            LET oerr == FilesystemOpen(d, q.ContainerName) IN
            IF OsIsNotExist(oerr) THEN
                [err |-> NewError(ErrorCodeContainerNotFound), source |-> "none",
                 fetches |-> 1, opens |-> 1]
            ELSE IF oerr # Nil THEN
                [err |-> Wrapf("open log file", oerr), source |-> "none",
                 fetches |-> 1, opens |-> 1]
            ELSE [err |-> Nil, source |-> "storage", fetches |-> 1, opens |-> 1]
        ELSE [err |-> Wrapf("get container logs", err), source |-> "none",
              fetches |-> 1, opens |-> 0]
    ELSE [err |-> Nil, source |-> "docker", fetches |-> 1, opens |-> 0]

\* the reader ContainerLogService puts on a stored file:
\* NewLogsFilterReader(r, false, query.IncludeStdout, query.IncludeStderr)
StoredLogsReader(rc, q) ==
    NewLogsFilterReader(rc, FALSE, q.IncludeStdout, q.IncludeStderr)

\* the reader the Docker adapter puts on a live stream:
\* NewLogsFilterReader(r, query.IncludeStdout, query.IncludeStderr)
LiveLogsReader(rc, q) ==
    NewLogsFilterReader(rc, q.IncludeStdout, q.IncludeStderr, FALSE)

\* isIncluded of the Service's goroutine, mutated: the flags change places
IsIncludedSwapped(rec, q) ==
    \/ rec.Stream = StreamTypeStderr /\ q.IncludeStdout
    \/ rec.Stream = StreamTypeStdout /\ q.IncludeStderr

\* isIncluded := (rec.Stream == stderr && IncludeStderr) || (rec.Stream == stdout && IncludeStdout)
IsIncluded(rec, q) ==
    \/ rec.Stream = StreamTypeStderr /\ q.IncludeStderr
    \/ rec.Stream = StreamTypeStdout /\ q.IncludeStdout

\* the handler's test, mutated: the request always goes to the service
NeverSelectsNothing(includeStdout, includeStderr) == FALSE

\* if !includeStderr && !includeStdout
SelectsNothing(includeStdout, includeStderr) == ~includeStderr /\ ~includeStdout

-----------------------------------------------------------------------------
(* The requests: GetContainerLogs called directly, and GET /logs/{name}     *)

StatusOK == 200
StatusNotFound == 404
StatusInternalServerError == 500

\* what q.Get("stdout") and q.Get("stderr") can give
ParamValues == {"", "0", "1"}

SomeQuery(includeStdout, includeStderr) ==
    [ContainerName |-> ContainerName,
     IncludeStdout |-> includeStdout,
     IncludeStderr |-> includeStderr]

\* GetContainerLogs(ctx, q) of the implementation in use
CallGetContainerLogs(q) ==
    IF impl = "Service" THEN ServiceGetContainerLogs(docker, disk, q)
    ELSE ContainerLogServiceGetContainerLogs(docker, disk, q)

\* The call and the stream it hands back.  The source carries the whole log,
\* both channels: the filtering is the service's.
Serve(q, how, ps) ==
    LET res == CallGetContainerLogs(q) IN
    /\ entry' = how
    /\ params' = ps
    /\ query' = q
    /\ ret' = [ok |-> res.err = Nil, err |-> res.err]
    /\ source' = res.source
    /\ fetches' = fetches + res.fetches
    /\ opens' = opens + res.opens
    /\ status' = IF how # "http" THEN 0
                 ELSE IF res.err # Nil THEN StatusNotFound
                 ELSE StatusOK
    /\ IF res.err # Nil THEN
            /\ reading' = "none"
            /\ UNCHANGED <<body, r>>
       ELSE IF impl = "Service" THEN
            /\ reading' = "ndjson"
            /\ body' = EncodeRecords(recs)
            /\ UNCHANGED r
       ELSE /\ reading' = "filter"
            /\ r' = IF res.source = "storage" THEN StoredLogsReader(Mux(frames), q)
                    ELSE LiveLogsReader(Mux(frames), q)
            /\ UNCHANGED body
    /\ UNCHANGED <<got, lastN, lastErr, frames, cut, zeroSkips, impl, recs, docker, disk>>
    /\ UNCHANGED notServiceVars

\* a caller of the service
GetContainerLogs ==
    /\ impl # "none"
    /\ entry = "none"
    /\ \E includeStdout \in BOOLEAN, includeStderr \in BOOLEAN :
          Serve(SomeQuery(includeStdout, includeStderr), "direct", <<"", "">>)

\* handleLogs
HandleLogs ==
    /\ impl # "none"
    /\ entry = "none"
    /\ \E pstdout \in ParamValues, pstderr \in ParamValues :
          LET includeStdout == pstdout = "1"
              includeStderr == pstderr # "0"
          IN  IF SelectsNothing(includeStdout, includeStderr) THEN
                  /\ entry' = "http"
                  /\ params' = <<pstdout, pstderr>>
                  /\ status' = StatusOK
                  /\ UNCHANGED <<readVars, filterVars, impl, recs, docker, disk,
                                 query, ret, source, body, fetches, opens>>
                  /\ UNCHANGED notServiceVars
              ELSE Serve(SomeQuery(includeStdout, includeStderr), "http",
                         <<pstdout, pstderr>>)

\* one turn of the loop of the Service's goroutine, and the caller's read of
\* what it wrote to the pipe
Transform ==
    /\ reading = "ndjson"
    /\ lastErr = "nil"
    /\ LET d == Decode(body) IN
       IF d.err # "nil" THEN
            /\ lastErr' = d.err
            /\ lastN' = 0
            /\ UNCHANGED <<got, body>>
       ELSE /\ body' = d.rest
            /\ got' = got \o (IF IsIncluded(d.rec, query) THEN d.rec.Log ELSE <<>>)
            /\ lastN' = IF IsIncluded(d.rec, query) THEN Len(d.rec.Log) ELSE 0
            /\ UNCHANGED lastErr
    /\ UNCHANGED <<reading, filterVars, impl, recs, docker, disk, entry, params,
                   query, ret, source, fetches, opens, status>>
    /\ UNCHANGED notServiceVars

Streams == {StreamTypeStdout, StreamTypeStderr}

\* the text of record i: none, a letter, or a letter with the bytes the
\* encoder escapes
LogText(i, kind) ==
    IF kind = 0 THEN <<>>
    ELSE IF kind = 1 THEN <<64 + i>>
    ELSE <<64 + i, Quote, Backslash, Newline>>

MkRecord(i, st, kind) ==
    [Timestamp |-> IF kind = 1 THEN i ELSE 0, Stream |-> st, Log |-> LogText(i, kind)]

RecordSeqs ==
    UNION {{[i \in 1..n |-> MkRecord(i, c[i][1], c[i][2])] :
                c \in [1..n -> Streams \X (0..2)]} : n \in 0..MaxRecs}

Disks(i) ==
    IF i = "Service" THEN
        {[logs |-> l, denied |-> dn, index |-> ix] :
            l \in SUBSET {ContainerName, ContainerID},
            dn \in SUBSET {ContainerName, ContainerID},
            ix \in {<<>>, [n \in {ContainerName} |-> ContainerID]}}
    ELSE
        {[logs |-> l, denied |-> dn, index |-> <<>>] :
            l \in SUBSET {ContainerName}, dn \in SUBSET {ContainerName}}

InitService ==
    /\ impl \in {"Service", "ContainerLogService"}
    /\ IF impl = "Service"
         THEN recs \in RecordSeqs /\ frames = <<>>
         ELSE recs = <<>> /\ frames \in FrameSeqs
    /\ docker \in {"live", "absent", "failing"}
    /\ disk \in Disks(impl)
    /\ disk.denied \subseteq disk.logs
    /\ cut = 0
    /\ r = NewLogsFilterReader(<<>>, FALSE, FALSE, FALSE)
    /\ zeroSkips = 0
    /\ reading = "none" /\ got = <<>> /\ lastN = 0 /\ lastErr = "nil"
    /\ entry = "none" /\ params = <<"", "">>
    /\ query = [ContainerName |-> "", IncludeStdout |-> FALSE, IncludeStderr |-> FALSE]
    /\ ret = [ok |-> FALSE, err |-> <<>>]
    /\ source = "none" /\ body = <<>> /\ fetches = 0 /\ opens = 0 /\ status = 0
    /\ CollectorIdle
    /\ WriterIdle
    /\ StorageIdle
    /\ CaptureIdle
    /\ StreamIdle
    /\ LogFileIdle
    /\ ProgramIdle

NextService ==
    \/ GetContainerLogs
    \/ HandleLogs
    \/ Transform
    \/ Read

SpecService == InitService /\ [][NextService]_vars

-----------------------------------------------------------------------------
(* The stored replay of Service.GetContainerLogs over a damaged log file    *)

\* a timestamp member that is not a time: its digit is out of range
NotATime == 10

\* the records of a log file, one of them possibly with a timestamp that
\* cannot be parsed
DamagedRecordSeqs ==
    RecordSeqs \cup
    {[rs EXCEPT ![j].Timestamp = NotATime] : rs \in RecordSeqs, j \in 1..MaxRecs}

\* the log file: the encoded records less the last c bytes
StoredBytes(rs, c) == Take(EncodeRecords(rs), Len(EncodeRecords(rs)) - c)

\* the file ends after its last record, or anywhere inside it
RecordCuts(rs) ==
    IF rs = <<>> THEN {0} ELSE 0..Len(EncodeRecord(rs[Len(rs)]))

\* GetContainerLogs has returned the pipe over a stored log file that may
\* end anywhere and may hold a malformed record
InitDecode ==
    /\ impl = "Service"
    /\ recs \in DamagedRecordSeqs
    /\ cut \in RecordCuts(recs)
    /\ frames = <<>>
    /\ docker = "absent"
    /\ disk = [logs |-> {ContainerName}, denied |-> {}, index |-> <<>>]
    /\ r = NewLogsFilterReader(<<>>, FALSE, FALSE, FALSE)
    /\ zeroSkips = 0
    /\ reading = "ndjson" /\ got = <<>> /\ lastN = 0 /\ lastErr = "nil"
    /\ entry = "direct" /\ params = <<"", "">>
    /\ \E includeStdout \in BOOLEAN, includeStderr \in BOOLEAN :
          query = SomeQuery(includeStdout, includeStderr)
    /\ ret = [ok |-> TRUE, err |-> Nil]
    /\ source = "storage" /\ body = StoredBytes(recs, cut)
    /\ fetches = 1 /\ opens = 1 /\ status = 0
    /\ CollectorIdle
    /\ WriterIdle
    /\ StorageIdle
    /\ CaptureIdle
    /\ StreamIdle
    /\ LogFileIdle
    /\ ProgramIdle

NextDecode == Transform

SpecDecode == InitDecode /\ [][NextDecode]_vars

-----------------------------------------------------------------------------
(* The Collector: Run, its watch loop, the capture tasks it spawns, and the *)
(* goroutine of WatchContainersStart that feeds the loop                    *)

MaxListed == 2
MaxEvents == 1

Names == {"web", "db"}

\* ctx.Err() of a cancelled context
ContextCanceled == <<[type |-> "errorString", code |-> "context canceled"]>>

\* the error Docker's event stream ends with
EventsError == <<[type |-> "errorString", code |-> "events"]>>

\* the tasks Run can have spawned
TaskIds == 1..(MaxListed + MaxEvents)

\* ctx of Run, mutated: context.WithCancel(context.Background())
CtxDoneDetached(parent, called) == called

\* ctx, cancel := context.WithCancel(ctx): done once the parent is cancelled
\* or cancel has been called
CtxDone(parent, called) == parent \/ called

\* c.wg.Wait(), mutated: it does not look at the counter
WgWaitSkipped(n) == TRUE

\* c.wg.Wait() returns when the counter is zero
WgWait(n) == n = 0

\* shouldWatchContainer(containerName), mutated: an empty list admits nobody
ShouldWatchContainerStrict(opts, containerName) ==
    \E i \in 1..Len(opts) : opts[i] = containerName

\* shouldWatchContainer(containerName)
ShouldWatchContainer(opts, containerName) ==
    IF Len(opts) = 0 THEN TRUE
    ELSE \E i \in 1..Len(opts) : opts[i] = containerName

\* the containers of cs that pass shouldWatchContainer, in order
RECURSIVE Watched(_, _)
Watched(opts, cs) ==
    IF cs = <<>> THEN <<>>
    ELSE (IF ShouldWatchContainer(opts, Head(cs)) THEN <<Head(cs)>> ELSE <<>>)
         \o Watched(opts, Tail(cs))

\* c.wg.Add(1); go func() { defer c.wg.Done(); c.collectContainerLogs(ctx, ctr) }()
Spawn(ts, cs) == ts \o [i \in 1..Len(cs) |-> [Name |-> cs[i], pc |-> "started"]]

\* Run returns, mutated: no deferred function, Run is gone at once
LeaveAtOnce(err) ==
    /\ runErr' = err
    /\ cancelCalled' = TRUE
    /\ cpc' = "returned"

\* the deferred function of Run begins: cancel(), then c.wg.Wait()
Leave(err) ==
    /\ runErr' = err
    /\ cancelCalled' = TRUE
    /\ cpc' = "shutdown"

\* Run up to the select of watchContainers: the derived context,
\* discoverContainers, WatchContainersStart
Run ==
    /\ cpc = "idle"
    /\ \E lerr \in (IF listing.err THEN {DaemonError} ELSE {Nil})
                      \cup (IF parentCancelled THEN {ContextCanceled} ELSE {}) :
          IF lerr # Nil THEN
              /\ Leave(Wrapf("discover running containers",
                             Wrapf("list containers", lerr)))
              /\ UNCHANGED <<tasks, wg, mon, seen>>
          ELSE
              /\ tasks' = Spawn(tasks, Watched(options, listing.containers))
              /\ wg' = wg + Len(Watched(options, listing.containers))
              /\ seen' = listing.containers
              /\ mon' = "running"
              /\ cpc' = "watching"
              /\ UNCHANGED <<runErr, cancelCalled>>
    /\ UNCHANGED <<parentCancelled, listing, options, offer, errBuf, events, created>>
    /\ UNCHANGED notCollectorVars

\* case <-ctx.Done(): return ctx.Err()
WatchCtxDone ==
    /\ cpc = "watching"
    /\ CtxDone(parentCancelled, cancelCalled)
    /\ Leave(Wrapf("watch containers", ContextCanceled))
    /\ UNCHANGED <<parentCancelled, wg, tasks, listing, options, mon, offer, errBuf, events, seen, created>>
    /\ UNCHANGED notCollectorVars

\* case ctr, ok := <-containerEvents with ok: the task is spawned unless the
\* name is filtered out
WatchEvent ==
    /\ cpc = "watching"
    /\ mon = "offering"
    /\ mon' = "running"
    /\ tasks' = Spawn(tasks, Watched(options, <<offer>>))
    /\ wg' = wg + Len(Watched(options, <<offer>>))
    /\ seen' = Append(seen, offer)
    /\ UNCHANGED <<cpc, runErr, parentCancelled, cancelCalled, listing, options,
                   offer, errBuf, events, created>>
    /\ UNCHANGED notCollectorVars

\* ok of a receive, mutated: a channel the monitor still serves reads as closed
ReceiveNotOkAnytime(m) == m \in {"running", "closed"}

\* !ok of a receive from containerEvents or errs: the monitor has closed them
ReceiveNotOk(m) == m = "closed"

\* a receive from a closed channel (!ok): return nil
WatchClosed ==
    /\ cpc = "watching"
    /\ ReceiveNotOk(mon)
    /\ Leave(Nil)
    /\ UNCHANGED <<parentCancelled, wg, tasks, listing, options, mon, offer, errBuf, events, seen, created>>
    /\ UNCHANGED notCollectorVars

\* case err, ok := <-errs with ok: return err
WatchErr ==
    /\ cpc = "watching"
    /\ errBuf # Nil
    /\ errBuf' = Nil
    /\ Leave(Wrapf("watch containers", errBuf))
    /\ UNCHANGED <<parentCancelled, wg, tasks, listing, options, mon, offer, events, seen, created>>
    /\ UNCHANGED notCollectorVars

\* c.wg.Wait() returns, and Run with it
Wait ==
    /\ cpc = "shutdown"
    /\ WgWait(wg)
    /\ cpc' = "returned"
    /\ UNCHANGED <<runErr, parentCancelled, cancelCalled, wg, tasks, listing, options,
                   mon, offer, errBuf, events, seen, created>>
    /\ UNCHANGED notCollectorVars

\* the goroutine of a task returns, mutated: its error takes the others along
TaskReturnsAll(ts, i) == [j \in 1..Len(ts) |-> [ts[j] EXCEPT !.pc = "done"]]

\* the goroutine of task i returns: the error of collectContainerLogs is
\* logged, never passed on
TaskReturns(ts, i) == [ts EXCEPT ![i].pc = "done"]

\* collectContainerLogs up to io.Copy: FetchContainerLogs, then storage.Create
TaskStart(i) ==
    /\ i \in 1..Len(tasks)
    /\ tasks[i].pc = "started"
    /\ \E outcome \in {"fetch container logs", "create log file", "nil"} :
          /\ IF outcome = "nil" THEN
                 /\ tasks' = [tasks EXCEPT ![i].pc = "copying"]
                 /\ UNCHANGED wg
             ELSE
                 /\ tasks' = TaskReturns(tasks, i)
                 /\ wg' = wg - 1
          /\ created' = IF outcome = "fetch container logs" THEN created
                        ELSE created \cup {tasks[i].Name}
    /\ UNCHANGED <<cpc, runErr, parentCancelled, cancelCalled, listing, options,
                   mon, offer, errBuf, events, seen>>
    /\ UNCHANGED notCollectorVars

\* io.Copy ends: the container's stream ended or broke; the deferred Close
\* calls and c.wg.Done() run
TaskStreamEnds(i) ==
    /\ i \in 1..Len(tasks)
    /\ tasks[i].pc = "copying"
    /\ tasks' = TaskReturns(tasks, i)
    /\ wg' = wg - 1
    /\ UNCHANGED <<cpc, runErr, parentCancelled, cancelCalled, listing, options,
                   mon, offer, errBuf, events, seen, created>>
    /\ UNCHANGED notCollectorVars

\* io.Copy ends because the read of the live stream fails once ctx is done
TaskCtxDone(i) ==
    /\ i \in 1..Len(tasks)
    /\ tasks[i].pc = "copying"
    /\ CtxDone(parentCancelled, cancelCalled)
    /\ tasks' = TaskReturns(tasks, i)
    /\ wg' = wg - 1
    /\ UNCHANGED <<cpc, runErr, parentCancelled, cancelCalled, listing, options,
                   mon, offer, errBuf, events, seen, created>>
    /\ UNCHANGED notCollectorVars

\* the goroutine of WatchContainersStart: case msg, ok := <-messages with ok
MonitorMessage ==
    /\ mon = "running"
    /\ events < MaxEvents
    /\ \E name \in Names : offer' = name
    /\ mon' = "offering"
    /\ events' = events + 1
    /\ UNCHANGED <<cpc, runErr, parentCancelled, cancelCalled, wg, tasks, listing,
                   options, errBuf, seen, created>>
    /\ UNCHANGED notCollectorVars

\* case <-ctx.Done(): return, in either select; both channels are closed
MonitorCtxDone ==
    /\ mon \in {"running", "offering"}
    /\ CtxDone(parentCancelled, cancelCalled)
    /\ mon' = "closed"
    /\ UNCHANGED <<cpc, runErr, parentCancelled, cancelCalled, wg, tasks, listing,
                   options, offer, errBuf, events, seen, created>>
    /\ UNCHANGED notCollectorVars

\* the event stream ends: messages or errs closed, io.EOF, context.Canceled
MonitorStreamEnds ==
    /\ mon = "running"
    /\ mon' = "closed"
    /\ UNCHANGED <<cpc, runErr, parentCancelled, cancelCalled, wg, tasks, listing,
                   options, offer, errBuf, events, seen, created>>
    /\ UNCHANGED notCollectorVars

\* case err := <-errs with another error: errCh <- err; return
MonitorStreamFails ==
    /\ mon = "running"
    /\ errBuf' = EventsError
    /\ mon' = "closed"
    /\ UNCHANGED <<cpc, runErr, parentCancelled, cancelCalled, wg, tasks, listing,
                   options, offer, events, seen, created>>
    /\ UNCHANGED notCollectorVars

\* the owner of the context passed to Run cancels it
CancelParent ==
    /\ ~parentCancelled
    /\ parentCancelled' = TRUE
    /\ UNCHANGED <<cpc, runErr, cancelCalled, wg, tasks, listing, options,
                   mon, offer, errBuf, events, seen, created>>
    /\ UNCHANGED notCollectorVars

Listings ==
    UNION {[1..n -> Names] : n \in 0..MaxListed}

\* No request and no stream is in the model.
ReadIdle ==
    /\ reading = "none" /\ got = <<>> /\ lastN = 0 /\ lastErr = "nil"
    /\ frames = <<>> /\ cut = 0 /\ zeroSkips = 0
    /\ r = NewLogsFilterReader(<<>>, FALSE, FALSE, FALSE)

InitCollector ==
    /\ cpc = "idle"
    /\ runErr = Nil
    /\ parentCancelled = FALSE
    /\ cancelCalled = FALSE
    /\ wg = 0
    /\ tasks = <<>>
    /\ listing \in {[err |-> TRUE, containers |-> <<>>]}
                   \cup {[err |-> FALSE, containers |-> cs] : cs \in Listings}
    /\ options \in {<<>>, <<"web">>}
    /\ mon = "off"
    /\ offer = ""
    /\ errBuf = Nil
    /\ events = 0
    /\ seen = <<>>
    /\ created = {}
    /\ ReadIdle
    /\ ServiceIdle
    /\ WriterIdle
    /\ StorageIdle
    /\ CaptureIdle
    /\ StreamIdle
    /\ LogFileIdle
    /\ ProgramIdle

NextCollector ==
    \/ Run
    \/ WatchCtxDone
    \/ WatchEvent
    \/ WatchClosed
    \/ WatchErr
    \/ Wait
    \/ \E i \in TaskIds : TaskStart(i)
    \/ \E i \in TaskIds : TaskStreamEnds(i)
    \/ \E i \in TaskIds : TaskCtxDone(i)
    \/ MonitorMessage
    \/ MonitorCtxDone
    \/ MonitorStreamEnds
    \/ MonitorStreamFails
    \/ CancelParent

SpecCollector == InitCollector /\ [][NextCollector]_vars

\* The scheduler runs every goroutine that can take a step: Run's select and
\* its Wait, the tasks, the goroutine of WatchContainersStart.  What Docker
\* and the owner of the context do is under no obligation.
FairCollector ==
    /\ SpecCollector
    /\ WF_vars(WatchCtxDone)
    /\ WF_vars(WatchClosed)
    /\ WF_vars(WatchErr)
    /\ WF_vars(Wait)
    /\ WF_vars(MonitorCtxDone)
    /\ \A i \in TaskIds : WF_vars(TaskStart(i))
    /\ \A i \in TaskIds : WF_vars(TaskCtxDone(i))

-----------------------------------------------------------------------------
(* The ndjsonWriter of the Docker adapter: Write, emit, Close               *)

MaxInput == 4

Space == 32
LetterA == 97

\* the bytes a container's output is made of here: a newline, a space, a
\* timestamp token, a letter, a quote, a byte that is not UTF-8
WriterAlphabet == {Newline, Space, Digit0 + 1, LetterA, Quote, InvalidByte}

\* bytes.IndexByte, counted from 1; 0 when c is not in s
IndexByte(s, c) ==
    IF \E i \in 1..Len(s) : s[i] = c
    THEN CHOOSE i \in 1..Len(s) : s[i] = c /\ \A j \in 1..(i - 1) : s[j] # c
    ELSE 0

\* time.Parse(time.RFC3339Nano, tok): a timestamp token is one digit here
TimeParse(tok) ==
    IF Len(tok) = 1 /\ tok[1] \in Digit0..(Digit0 + 9)
    THEN [ok |-> TRUE, ts |-> tok[1] - Digit0]
    ELSE [ok |-> FALSE, ts |-> 0]

\* the record emit builds from a line
EmitRecord(st, line) ==
    LET sepIdx == IndexByte(line, Space) IN
    IF sepIdx > 1 /\ TimeParse(Take(line, sepIdx - 1)).ok
    THEN [Timestamp |-> TimeParse(Take(line, sepIdx - 1)).ts,
          Stream |-> st,
          Log |-> Drop(line, sepIdx)]
    ELSE [Timestamp |-> 0, Stream |-> st, Log |-> line]

\* the loop of Write, mutated: one line at most leaves the buffer per call
WriteLoopOnce(st, buf) ==
    IF IndexByte(buf, Newline) = 0 THEN [recs |-> <<>>, buf |-> buf]
    ELSE [recs |-> <<EmitRecord(st, Take(buf, IndexByte(buf, Newline)))>>,
          buf |-> Drop(buf, IndexByte(buf, Newline))]

\* the loop of Write over the buffer: [recs, buf]
RECURSIVE WriteLoop(_, _)
WriteLoop(st, buf) ==
    LET nlIdx == IndexByte(buf, Newline) IN
    IF nlIdx = 0 THEN [recs |-> <<>>, buf |-> buf]
    ELSE LET rest == WriteLoop(st, Drop(buf, nlIdx)) IN
         [recs |-> <<EmitRecord(st, Take(buf, nlIdx))>> \o rest.recs,
          buf |-> rest.buf]

\* ndjsonWriter.Write(p), p the next n bytes of the input
WriterWrite ==
    /\ wr.stream # ""
    /\ ~wClosed
    /\ wPos < Len(wInput)
    /\ \E n \in 1..(Len(wInput) - wPos) :
          LET p == SubSeq(wInput, wPos + 1, wPos + n)
              res == WriteLoop(wr.stream, wr.buf \o p)
          IN  /\ wr' = [wr EXCEPT !.buf = res.buf]
              /\ emitted' = emitted \o res.recs
              /\ wOut' = wOut \o EncodeRecords(res.recs)
              /\ wPos' = wPos + n
    /\ wWrites' = wWrites + 1
    /\ UNCHANGED <<wInput, wClosed>>
    /\ UNCHANGED notWriterVars

\* ndjsonWriter.Close()
WriterClose ==
    /\ wr.stream # ""
    /\ ~wClosed
    /\ wClosed' = TRUE
    /\ IF Len(wr.buf) > 0 THEN
            /\ emitted' = Append(emitted, EmitRecord(wr.stream, wr.buf))
            /\ wOut' = wOut \o EncodeRecord(EmitRecord(wr.stream, wr.buf))
            /\ wr' = [wr EXCEPT !.buf = <<>>]
       ELSE UNCHANGED <<emitted, wOut, wr>>
    /\ UNCHANGED <<wInput, wPos, wWrites>>
    /\ UNCHANGED notWriterVars

Inputs == UNION {[1..n -> WriterAlphabet] : n \in 0..MaxInput}

\* newNDJSONWriter(w, stream)
InitWriter ==
    /\ \E st \in Streams : wr = [stream |-> st, buf |-> <<>>]
    /\ wInput \in Inputs
    /\ wPos = 0 /\ wWrites = 0 /\ wClosed = FALSE
    /\ emitted = <<>> /\ wOut = <<>>
    /\ ReadIdle
    /\ ServiceIdle
    /\ CollectorIdle
    /\ StorageIdle
    /\ CaptureIdle
    /\ StreamIdle
    /\ LogFileIdle
    /\ ProgramIdle

NextWriter ==
    \/ WriterWrite
    \/ WriterClose

SpecWriter == InitWriter /\ [][NextWriter]_vars

-----------------------------------------------------------------------------
(* The goroutine of FetchContainerLogs: the live stream of the daemon,      *)
(* demultiplexed or not, turned into records by ndjsonWriters               *)

MaxFetch == 3

\* the bytes of a live stream here: a newline, a space, a timestamp token,
\* a letter, a byte that is not UTF-8
FetchAlphabet == {Newline, Space, Digit0 + 1, LetterA, InvalidByte}

RECURSIVE SumSizes(_)
SumSizes(fs) == IF fs = <<>> THEN 0 ELSE Head(fs)[2] + SumSizes(Tail(fs))

\* the ways n payload bytes come as frames of the two channels; for a TTY
\* the chunks io.Copy reads, all of them for the one writer
Framings(n, tty) ==
    {fs \in UNION {[1..k -> (IF tty THEN {StdoutSelector}
                             ELSE {StdoutSelector, StderrSelector}) \X (1..n)] :
                      k \in 0..n} : SumSizes(fs) = n}

\* ndjsonWriter.Close(): the records it emits
NdjsonWriterClose(st, buf) ==
    IF Len(buf) > 0 THEN <<EmitRecord(st, buf)>> ELSE <<>>

\* stdcopy.StdCopy(outW, errW, r), or io.Copy(outW, r), over the frames fs
\* with payload bytes b: [out, err, recs], the two buffers and the records
\* emitted
RECURSIVE StdCopy(_, _, _)
StdCopy(w, fs, b) ==
    IF fs = <<>> THEN w
    ELSE LET p == Take(b, Head(fs)[2]) IN
         IF Head(fs)[1] = StdoutSelector
         THEN LET res == WriteLoop(StreamTypeStdout, w.out \o p) IN
              StdCopy([w EXCEPT !.out = res.buf, !.recs = @ \o res.recs],
                      Tail(fs), Drop(b, Head(fs)[2]))
         ELSE LET res == WriteLoop(StreamTypeStderr, w.err \o p) IN
              StdCopy([w EXCEPT !.err = res.buf, !.recs = @ \o res.recs],
                      Tail(fs), Drop(b, Head(fs)[2]))

\* the records the goroutine writes to the pipe up to the end of the stream
FetchRecords(fs, b, tty) ==
    LET w == StdCopy([out |-> <<>>, err |-> <<>>, recs |-> <<>>], fs, b) IN
    IF tty THEN w.recs
    ELSE w.recs \o NdjsonWriterClose(StreamTypeStdout, w.out)
                \o NdjsonWriterClose(StreamTypeStderr, w.err)

\* the goroutine of FetchContainerLogs runs to the end of the live stream
FetchGoroutine ==
    /\ reading = "fetch"
    /\ emitted' = FetchRecords(frames, wInput, docker = "tty")
    /\ wOut' = EncodeRecords(emitted')
    /\ body' = wOut'
    /\ reading' = "ndjson"
    /\ UNCHANGED <<got, lastN, lastErr, filterVars, impl, recs, docker, disk, entry,
                   params, query, ret, source, fetches, opens, status>>
    /\ UNCHANGED <<wr, wInput, wPos, wWrites, wClosed>>
    /\ UNCHANGED <<collectorVars, storageVars, captureVars, streamVars, logFileVars,
                   programVars>>

\* GetContainerLogs has returned the pipe over a live stream
InitFetch ==
    /\ impl = "Service"
    /\ recs = <<>>
    /\ docker \in {"live", "tty"}
    /\ wInput \in UNION {[1..n -> FetchAlphabet] : n \in 0..MaxFetch}
    /\ frames \in Framings(Len(wInput), docker = "tty")
    /\ cut = 0
    /\ disk = [logs |-> {}, denied |-> {}, index |-> <<>>]
    /\ r = NewLogsFilterReader(<<>>, FALSE, FALSE, FALSE)
    /\ zeroSkips = 0
    /\ reading = "fetch" /\ got = <<>> /\ lastN = 0 /\ lastErr = "nil"
    /\ entry = "direct" /\ params = <<"", "">>
    /\ query \in {SomeQuery(TRUE, FALSE), SomeQuery(FALSE, TRUE)}
    /\ ret = [ok |-> TRUE, err |-> Nil]
    /\ source = "docker" /\ body = <<>>
    /\ fetches = 1 /\ opens = 0 /\ status = 0
    /\ wr = [stream |-> "", buf |-> <<>>]
    /\ wPos = 0 /\ wWrites = 0 /\ wClosed = FALSE
    /\ emitted = <<>> /\ wOut = <<>>
    /\ CollectorIdle
    /\ StorageIdle
    /\ CaptureIdle
    /\ StreamIdle
    /\ LogFileIdle
    /\ ProgramIdle

NextFetch ==
    \/ FetchGoroutine
    \/ Transform

SpecFetch == InitFetch /\ [][NextFetch]_vars

-----------------------------------------------------------------------------
(* LogStorage: Create, Open, LoadExistingMappings over the root directory,  *)
(* and the Open of the earlier LogStorage that reads the metadata file      *)

\* the directories of the root, in the order os.ReadDir lists them
SortedIDs == <<"id1", "id2">>
SIDs == {SortedIDs[i] : i \in 1..Len(SortedIDs)}

\* the containers handed to Create: two of one name, and one whose name is
\* the ID of another
Workloads ==
    {[ID |-> "id1", Name |-> "web"],
     [ID |-> "id2", Name |-> "web"],
     [ID |-> "id1", Name |-> "id2"]}

OpenArgs == SIDs \cup {w.Name : w \in Workloads}

NoMeta == [state |-> "none", ID |-> "", Name |-> ""]
BadMeta == [state |-> "bad", ID |-> "", Name |-> ""]
DeniedMeta == [state |-> "denied", ID |-> "", Name |-> ""]

\* json.NewEncoder(metadataFile).Encode(container)
MetaOf(c) == [state |-> "ok", ID |-> c.ID, Name |-> c.Name]

\* containerIDByName.Store(name, id), mutated: nothing is stored
StoreDropped(ix, name, id) == ix

\* containerIDByName.Store(name, id)
Store(ix, name, id) ==
    [n \in (DOMAIN ix) \cup {name} |-> IF n = name THEN id ELSE ix[n]]

\* the log files and the index as Open sees them
DiskView(d, ix) ==
    [logs |-> {k \in DOMAIN d : d[k].log # "none"},
     denied |-> {k \in DOMAIN d : d[k].log = "denied"},
     index |-> ix]

\* the key of the log file LogStorage.Open returns ("" when it returns none)
LogStorageOpenID(v, containerNameOrID) ==
    IF LogStorageOpen(v, containerNameOrID) # Nil THEN ""
    ELSE IF OsOpen(v, containerNameOrID) = Nil THEN containerNameOrID
    ELSE v.index[containerNameOrID]

\* LogStorage.Open of internal/filesystem/log_storage.go: [err, id].  The
\* log of a container is <name>.log, its metadata <id>.meta.json.
MetafileOpen(d, containerNameOrID) ==
    LET cell == d[containerNameOrID] IN
    IF cell.log = "ok" THEN [err |-> Nil, id |-> containerNameOrID]
    ELSE IF cell.log = "denied" THEN [err |-> PathError("EACCES"), id |-> ""]
    ELSE IF cell.meta.state = "none" THEN
        [err |-> NewError(ErrorCodeContainerNotFound), id |-> ""]
    ELSE IF cell.meta.state \in {"denied", "bad"} THEN
        [err |-> <<[type |-> "errorString", code |-> "decode"]>>, id |-> ""]
    ELSE IF cell.meta.Name \notin DOMAIN d \/ d[cell.meta.Name].log = "none" THEN
        [err |-> NewError(ErrorCodeContainerNotFound), id |-> ""]
    ELSE IF d[cell.meta.Name].log = "denied" THEN [err |-> Nil, id |-> ""]
    ELSE [err |-> Nil, id |-> cell.meta.Name]

\* the loop of LoadExistingMappings over the entries ids, mutated: the first
\* entry that cannot be decoded ends it
RECURSIVE LoadEntriesUntilBad(_, _, _)
LoadEntriesUntilBad(ix, d, ids) ==
    IF ids = <<>> THEN ix
    ELSE IF d[Head(ids)].meta.state # "ok" THEN ix
    ELSE LoadEntriesUntilBad(Store(ix, d[Head(ids)].meta.Name, d[Head(ids)].meta.ID),
                             d, Tail(ids))

\* the loop of LoadExistingMappings over the entries ids
RECURSIVE LoadEntries(_, _, _)
LoadEntries(ix, d, ids) ==
    IF ids = <<>> THEN ix
    ELSE IF d[Head(ids)].meta.state # "ok" THEN LoadEntries(ix, d, Tail(ids))
    ELSE LoadEntries(Store(ix, d[Head(ids)].meta.Name, d[Head(ids)].meta.ID),
                     d, Tail(ids))

NoCall == [op |-> "none", arg |-> "", err |-> Nil, id |-> "", after |-> ""]

\* run() calls LoadExistingMappings first thing on the new LogStorage
Reloaded(last) == IF last.op = "restart" THEN "reload" ELSE ""

\* LogStorage.Create(container); fault is the step of it the file system
\* refuses, if any
Create ==
    /\ sver = "index"
    /\ \E c \in Workloads :
       \E fault \in {"none", "mkdir", "metadata", "encode", "log"} :
          LET logFails == fault = "log" \/ sdisk[c.ID].log = "denied"
              err == IF fault = "mkdir" THEN Wrapf("make container directory", PathError("EACCES"))
                     ELSE IF fault = "metadata" THEN Wrapf("create metadata file", PathError("EACCES"))
                     ELSE IF fault = "encode" THEN Wrapf("encode container metadata", PathError("ENOSPC"))
                     ELSE IF logFails THEN Wrapf("create log file", PathError("EACCES"))
                     ELSE Nil
              written == fault \notin {"mkdir", "metadata", "encode"}
          IN  /\ sroot' = IF fault # "mkdir" /\ sroot = "missing" THEN "ok" ELSE sroot
              /\ sdisk' = [sdisk EXCEPT
                    ![c.ID].meta = IF fault = "encode" THEN BadMeta
                                   ELSE IF written THEN MetaOf(c)
                                   ELSE @,
                    ![c.ID].log = IF err = Nil THEN "ok" ELSE @]
              /\ sindex' = IF written THEN Store(sindex, c.Name, c.ID) ELSE sindex
              /\ sret' = [op |-> "create", arg |-> c.ID, err |-> err, id |-> "",
                          after |-> ""]
              /\ fresh' = {w \in fresh : w.Name # c.Name}
                              \cup (IF err = Nil THEN {c} ELSE {})
              /\ succeeded' = succeeded \cup (IF err = Nil THEN {c} ELSE {})
    /\ UNCHANGED <<sver, earlier>>
    /\ UNCHANGED notStorageVars

\* LogStorage.Open(containerNameOrID)
Open ==
    /\ sver # "none"
    /\ \E arg \in OpenArgs \cap (IF sver = "index" THEN OpenArgs ELSE DOMAIN sdisk) :
          sret' = IF sver = "index"
                  THEN [op |-> "open", arg |-> arg,
                        err |-> LogStorageOpen(DiskView(sdisk, sindex), arg),
                        id |-> LogStorageOpenID(DiskView(sdisk, sindex), arg),
                        after |-> sret.after]
                  ELSE [op |-> "open", arg |-> arg,
                        err |-> MetafileOpen(sdisk, arg).err,
                        id |-> MetafileOpen(sdisk, arg).id,
                        after |-> sret.after]
    /\ UNCHANGED <<sver, sroot, sdisk, sindex, fresh, succeeded, earlier>>
    /\ UNCHANGED notStorageVars

\* LogStorage.LoadExistingMappings(), which run() calls on the LogStorage it
\* has just made and nowhere else
LoadExistingMappings ==
    /\ sver = "index"
    /\ sret.op \in {"none", "restart"}
    /\ IF sroot = "missing" THEN
            /\ sret' = [op |-> "load", arg |-> "", err |-> Nil, id |-> "",
                        after |-> Reloaded(sret)]
            /\ UNCHANGED sindex
       ELSE IF sroot = "unreadable" THEN
            /\ sret' = [op |-> "load", arg |-> "",
                        err |-> Wrapf("read log directory", PathError("EACCES")),
                        id |-> "", after |-> ""]
            /\ UNCHANGED sindex
       ELSE /\ sret' = [op |-> "load", arg |-> "", err |-> Nil, id |-> "",
                        after |-> Reloaded(sret)]
            /\ sindex' = LoadEntries(sindex, sdisk, SortedIDs)
    /\ UNCHANGED <<sver, sroot, sdisk, fresh, succeeded, earlier>>
    /\ UNCHANGED notStorageVars

\* the process ends and another starts: NewLogStorage(root) on the same root
Restart ==
    /\ sver = "index"
    /\ sindex' = <<>>
    /\ sret' = [op |-> "restart", arg |-> "", err |-> Nil, id |-> "",
                after |-> "restart"]
    /\ earlier' = earlier \cup succeeded
    /\ succeeded' = {}
    /\ fresh' = {}
    /\ UNCHANGED <<sver, sroot, sdisk>>
    /\ UNCHANGED notStorageVars

\* what an earlier process, or somebody else, may have left under a key
Cells(k) ==
    {[meta |-> m, log |-> l] :
        m \in {NoMeta, BadMeta} \cup {MetaOf(w) : w \in {x \in Workloads : x.ID = k}},
        l \in {"none", "ok", "denied"}}

MetafileKeys == {"id1", "web"}

MetafileCells ==
    {[meta |-> m, log |-> l] :
        m \in {NoMeta, BadMeta, DeniedMeta, [state |-> "ok", ID |-> "id1", Name |-> "web"]},
        l \in {"none", "ok", "denied"}}

\* NewLogStorage(root)
InitStorage ==
    /\ sver \in {"index", "metafile"}
    /\ IF sver = "index" THEN
            /\ sroot \in {"ok", "missing", "unreadable"}
            /\ sdisk \in [SIDs -> UNION {Cells(k) : k \in SIDs}]
            /\ \A k \in SIDs : sdisk[k] \in Cells(k)
            /\ sroot = "missing" => \A k \in SIDs : sdisk[k] = [meta |-> NoMeta, log |-> "none"]
       ELSE /\ sroot = "ok"
            /\ sdisk \in [MetafileKeys -> MetafileCells]
    /\ sindex = <<>>
    /\ sret = NoCall
    /\ fresh = {} /\ succeeded = {} /\ earlier = {}
    /\ ReadIdle
    /\ ServiceIdle
    /\ CollectorIdle
    /\ WriterIdle
    /\ CaptureIdle
    /\ StreamIdle
    /\ LogFileIdle
    /\ ProgramIdle

NextStorage ==
    \/ Create
    \/ Open
    \/ LoadExistingMappings
    \/ Restart

SpecStorage == InitStorage /\ [][NextStorage]_vars

-----------------------------------------------------------------------------
(* collectContainerLogs, one call of it with the bytes it copies            *)

MaxStream == 2

\* the bytes a live stream can carry
StreamAlphabet == {1, 2}

\* the live streams FetchContainerLogs can return
LiveStreams == UNION {[1..n -> StreamAlphabet] : n \in 0..MaxStream}

\* a read of the live stream that fails
StreamError == <<[type |-> "errorString", code |-> "stream"]>>

\* io.Copy, one turn of its loop, mutated: what is read goes in front of
\* what was written
CopyChunkInFront(written, chunk) == chunk \o written

\* io.Copy, one turn of its loop: what is read is written
CopyChunk(written, chunk) == written \o chunk

\* the deferred calls of collectContainerLogs, mutated: there are none
NoDeferred(c) == c

\* the deferred calls of collectContainerLogs: f.Close() and r.Close(), each
\* if its defer statement was reached
Deferred(c) ==
    [c EXCEPT !.f = IF @ = "open" THEN "closed" ELSE @,
              !.rc = IF @ = "open" THEN "closed" ELSE @]

\* collectContainerLogs returns err
Return(c, err) == Deferred([c EXCEPT !.pc = "done", !.err = err])

\* collectContainerLogs up to io.Copy: FetchContainerLogs, then storage.Create
CollectContainerLogs ==
    /\ cap.pc = "started"
    /\ \/ cap' = Return(cap, Wrapf("fetch container logs", DaemonError))
       \/ cap' = Return([cap EXCEPT !.rc = "open"],
                        Wrapf("create log file", PathError("EACCES")))
       \/ cap' = [cap EXCEPT !.pc = "copying", !.rc = "open", !.f = "open"]
    /\ UNCHANGED capCtxDone
    /\ UNCHANGED notCaptureVars

\* io.Copy reads some bytes of the live stream and writes them to the log
\* file, or the write fails and collectContainerLogs returns
IoCopy ==
    /\ cap.pc = "copying"
    /\ Len(cap.written) < Len(cap.live)
    /\ \/ \E n \in 1..(Len(cap.live) - Len(cap.written)) :
             cap' = [cap EXCEPT !.written =
                        CopyChunk(@, Take(Drop(cap.live, Len(@)), n))]
       \/ cap' = Return(cap, Wrapf("copy logs to file", PathError("ENOSPC")))
    /\ UNCHANGED capCtxDone
    /\ UNCHANGED notCaptureVars

\* the live stream has given all its bytes: the next read is io.EOF and
\* io.Copy returns nil, or it is an error
IoCopyEnds ==
    /\ cap.pc = "copying"
    /\ Len(cap.written) = Len(cap.live)
    /\ cap' = Return(cap, IF cap.ends = "eof" THEN Nil
                           ELSE Wrapf("copy logs to file", StreamError))
    /\ UNCHANGED capCtxDone
    /\ UNCHANGED notCaptureVars

\* the read of the live stream fails because ctx is done
IoCopyCtxDone ==
    /\ cap.pc = "copying"
    /\ capCtxDone
    /\ cap' = Return(cap, Wrapf("copy logs to file", ContextCanceled))
    /\ UNCHANGED capCtxDone
    /\ UNCHANGED notCaptureVars

\* Run's cancel(), or the cancellation of the context passed to Run
CaptureCancel ==
    /\ cap.pc # "none"
    /\ ~capCtxDone
    /\ capCtxDone' = TRUE
    /\ UNCHANGED cap
    /\ UNCHANGED notCaptureVars

InitCapture ==
    /\ \E s \in LiveStreams : \E e \in {"eof", "error"} :
          cap = [pc |-> "started", live |-> s, ends |-> e, written |-> <<>>, err |-> Nil,
                 rc |-> "none", f |-> "none"]
    /\ capCtxDone = FALSE
    /\ ReadIdle
    /\ ServiceIdle
    /\ CollectorIdle
    /\ WriterIdle
    /\ StorageIdle
    /\ StreamIdle
    /\ LogFileIdle
    /\ ProgramIdle

NextCapture ==
    \/ CollectContainerLogs
    \/ IoCopy
    \/ IoCopyEnds
    \/ IoCopyCtxDone
    \/ CaptureCancel

SpecCapture == InitCapture /\ [][NextCapture]_vars

-----------------------------------------------------------------------------
(* The stream GetContainerLogs hands back, its source and Close: the pipe   *)
(* and goroutine of Service, and the LogsFilterReader                       *)

MaxPending == 2
MaxCloses == 2

\* the goroutine of GetContainerLogs in dec.Decode(&rec): a record arrives,
\* or the source is at its end and the goroutine returns, the deferred
\* pw.Close() and rc.Close() run
GoroutineDecode ==
    /\ pimpl = "pipe"
    /\ gpc = "decode"
    /\ IF pending # <<>> THEN
            /\ gpc' = IF Head(pending) THEN "write" ELSE "decode"
            /\ pending' = Tail(pending)
            /\ UNCHANGED rcCloses
       ELSE /\ srcMode = "eof"
            /\ gpc' = "exited"
            /\ rcCloses' = rcCloses + 1
            /\ UNCHANGED pending
    /\ UNCHANGED <<pimpl, srcMode, closes>>
    /\ UNCHANGED notStreamVars

\* pw.Write([]byte(rec.Log)) returns io.ErrClosedPipe once the caller has
\* closed the read end: the goroutine returns and its deferred calls run
GoroutineWrite ==
    /\ pimpl = "pipe"
    /\ gpc = "write"
    /\ closes > 0
    /\ gpc' = "exited"
    /\ rcCloses' = rcCloses + 1
    /\ UNCHANGED <<pimpl, pending, srcMode, closes>>
    /\ UNCHANGED notStreamVars

\* the caller reads: from the pipe what the goroutine is writing, from the
\* LogsFilterReader the next frame of the source
CallerRead ==
    /\ closes = 0
    /\ \/ /\ pimpl = "pipe"
          /\ gpc = "write"
          /\ gpc' = "decode"
          /\ UNCHANGED pending
       \/ /\ pimpl = "filter"
          /\ pending # <<>>
          /\ pending' = Tail(pending)
          /\ UNCHANGED gpc
    /\ UNCHANGED <<pimpl, srcMode, closes, rcCloses>>
    /\ UNCHANGED notStreamVars

\* the caller closes the stream: pr.Close() of the pipe, or
\* LogsFilterReader.Close, which is r.rc.Close()
CallerClose ==
    /\ pimpl # "none"
    /\ closes < MaxCloses
    /\ closes' = closes + 1
    /\ rcCloses' = IF pimpl = "filter" THEN rcCloses + 1 ELSE rcCloses
    /\ UNCHANGED <<pimpl, pending, srcMode, gpc>>
    /\ UNCHANGED notStreamVars

\* the silent source comes to its end: the container stops, or the context
\* of the request is cancelled
SourceEnds ==
    /\ pimpl # "none"
    /\ srcMode = "silent"
    /\ srcMode' = "eof"
    /\ UNCHANGED <<pimpl, pending, gpc, closes, rcCloses>>
    /\ UNCHANGED notStreamVars

PendingRecords == UNION {[1..n -> BOOLEAN] : n \in 0..MaxPending}

\* GetContainerLogs has returned a stream
InitStream ==
    /\ pimpl \in {"pipe", "filter"}
    /\ pending \in PendingRecords
    /\ srcMode \in {"eof", "silent"}
    /\ gpc = IF pimpl = "pipe" THEN "decode" ELSE "none"
    /\ closes = 0
    /\ rcCloses = 0
    /\ ReadIdle
    /\ ServiceIdle
    /\ CollectorIdle
    /\ WriterIdle
    /\ StorageIdle
    /\ CaptureIdle
    /\ LogFileIdle
    /\ ProgramIdle

NextStream ==
    \/ GoroutineDecode
    \/ GoroutineWrite
    \/ CallerRead
    \/ CallerClose
    \/ SourceEnds

SpecStream == InitStream /\ [][NextStream]_vars

\* The scheduler runs the goroutine whenever it can take a step.  The caller
\* and the source are under no obligation.
FairStream ==
    /\ SpecStream
    /\ WF_vars(GoroutineDecode)
    /\ WF_vars(GoroutineWrite)

-----------------------------------------------------------------------------
(* The log file of one container: os.Create in LogStorage.Create, and the   *)
(* writes of the capture tasks through the files it returned                *)

MaxHandles == 2
MaxWrites == 2

\* os.Create(logPath): O_RDWR|O_CREATE|O_TRUNC, the file is emptied
OsCreate(file) == <<>>

\* a write of byte b at offset off: over what is there, or after a hole
WriteAt(file, off, b) ==
    IF off < Len(file) THEN [file EXCEPT ![off + 1] = b]
    ELSE file \o [i \in 1..(off - Len(file)) |-> 0] \o <<b>>

\* LogStorage.Create for the container, its log file step: the file it
\* returns starts at offset 0
LogCreate ==
    /\ Len(lhandles) < MaxHandles
    /\ lfile' = OsCreate(lfile)
    /\ lhandles' = Append(lhandles, [off |-> 0, open |-> TRUE])
    /\ UNCHANGED lwritten
    /\ UNCHANGED notLogFileVars

\* io.Copy(f, r) of a capture task writes a byte through its file
LogWrite ==
    /\ Len(lwritten) < MaxWrites
    /\ \E h \in 1..Len(lhandles) : \E b \in StreamAlphabet :
          /\ lhandles[h].open
          /\ lfile' = WriteAt(lfile, lhandles[h].off, b)
          /\ lhandles' = [lhandles EXCEPT ![h].off = @ + 1]
          /\ lwritten' = Append(lwritten, b)
    /\ UNCHANGED notLogFileVars

\* the deferred f.Close() of a capture task
LogClose ==
    /\ \E h \in 1..Len(lhandles) :
          /\ lhandles[h].open
          /\ lhandles' = [lhandles EXCEPT ![h].open = FALSE]
    /\ UNCHANGED <<lfile, lwritten>>
    /\ UNCHANGED notLogFileVars

\* the first Create for the container has returned its file
InitLogFile ==
    /\ lfile = <<>>
    /\ lhandles = <<[off |-> 0, open |-> TRUE]>>
    /\ lwritten = <<>>
    /\ ReadIdle
    /\ ServiceIdle
    /\ CollectorIdle
    /\ WriterIdle
    /\ StorageIdle
    /\ CaptureIdle
    /\ StreamIdle
    /\ ProgramIdle

NextLogFile ==
    \/ LogCreate
    \/ LogWrite
    \/ LogClose

SpecLogFile == InitLogFile /\ [][NextLogFile]_vars

-----------------------------------------------------------------------------
(* run: the errgroup of the program, with Collector.Run in one goroutine,   *)
(* srv.Shutdown in another and srv.ListenAndServe in the third              *)

MaxUnseen == 1

\* ctx.Err() of a context whose deadline has passed
DeadlineExceeded == <<[type |-> "errorString", code |-> "context deadline exceeded"]>>

\* net.Listen refuses the address
ListenError == <<[type |-> "OpError", code |-> "listen"]>>

\* what the goroutines of run leave alone besides the Collector and the group
restVars == <<readVars, filterVars, serviceVars, writerVars, storageVars,
                 captureVars, streamVars, logFileVars>>

\* the Collector's variables but the context handed to Run
runVars == <<cpc, runErr, cancelCalled, wg, tasks, listing, options, mon, offer,
             errBuf, events, seen, created>>

\* errors.Is(err, context.Canceled)
IsCanceled(err) == \E k \in 0..Len(err) : Drop(err, k) = ContextCanceled

\* the function of g.Go returns err: the first error that is not nil is kept
\* and cancels the context of the group
GoReturns(who, err) ==
    /\ g' = [g EXCEPT ![who] = "done",
                      !.err = IF g.err = Nil THEN err ELSE @]
    /\ parentCancelled' = (parentCancelled \/ err # Nil)

\* a workload starts on the engine once it has answered ListContainers and
\* before the adapter has called Events: it is not in the listing, and the
\* subscription, which begins at the call, does not report it
StartsUnseen ==
    /\ g.collector = "running"
    /\ cpc = "idle"
    /\ Len(unseen) < MaxUnseen
    /\ \E name \in Names : unseen' = Append(unseen, name)
    /\ UNCHANGED <<g, srv, collectorVars, restVars>>

\* g.Go(func): logCollector.Run(ctx) has returned
CollectorReturns ==
    /\ g.collector = "running"
    /\ cpc = "returned"
    /\ GoReturns("collector",
                 IF runErr # Nil /\ ~IsCanceled(runErr)
                 THEN Wrapf("log collector run", runErr) ELSE Nil)
    /\ UNCHANGED <<srv, unseen, runVars, restVars>>

\* g.Go(func): <-ctx.Done(), then srv.Shutdown(shutdownCtx)
ServerShutdown ==
    /\ g.shutdown = "waiting"
    /\ parentCancelled
    /\ srv' = "closed"
    /\ \E err \in {Nil, Wrapf("server shutdown", DeadlineExceeded)} :
          GoReturns("shutdown", err)
    /\ UNCHANGED <<unseen, runVars, restVars>>

\* g.Go(func): srv.ListenAndServe() begins to serve, or returns at once
\* because the address is refused or Shutdown has been called
ListenAndServe ==
    /\ g.listen = "starting"
    /\ IF srv = "closed" THEN
            /\ GoReturns("listen", Nil)
            /\ UNCHANGED srv
       ELSE \/ /\ srv' = "serving"
               /\ g' = [g EXCEPT !.listen = "serving"]
               /\ UNCHANGED parentCancelled
            \/ /\ GoReturns("listen", Wrapf("server stopped", ListenError))
               /\ UNCHANGED srv
    /\ UNCHANGED <<unseen, runVars, restVars>>

\* srv.ListenAndServe() returns http.ErrServerClosed after Shutdown
ServeReturns ==
    /\ g.listen = "serving"
    /\ srv = "closed"
    /\ GoReturns("listen", Nil)
    /\ UNCHANGED <<srv, unseen, runVars, restVars>>

\* return g.Wait(): the three functions have returned
GroupWait ==
    /\ g.collector = "done" /\ g.shutdown = "done" /\ g.listen = "done"
    /\ ~g.waited
    /\ g' = [g EXCEPT !.waited = TRUE]
    /\ parentCancelled' = TRUE
    /\ UNCHANGED <<srv, unseen, runVars, restVars>>

\* run up to g.Wait(): the Collector, the server and the group are made and
\* the three goroutines started
InitProgram ==
    /\ cpc = "idle"
    /\ runErr = Nil
    /\ parentCancelled = FALSE
    /\ cancelCalled = FALSE
    /\ wg = 0
    /\ tasks = <<>>
    /\ listing \in {[err |-> TRUE, containers |-> <<>>]}
                   \cup {[err |-> FALSE, containers |-> cs] : cs \in Listings}
    /\ options \in {<<>>, <<"web">>}
    /\ mon = "off"
    /\ offer = ""
    /\ errBuf = Nil
    /\ events = 0
    /\ seen = <<>>
    /\ created = {}
    /\ g = [collector |-> "running", shutdown |-> "waiting", listen |-> "starting",
            err |-> Nil, waited |-> FALSE]
    /\ srv = "new"
    /\ unseen = <<>>
    /\ ReadIdle
    /\ ServiceIdle
    /\ WriterIdle
    /\ StorageIdle
    /\ CaptureIdle
    /\ StreamIdle
    /\ LogFileIdle

NextProgram ==
    \/ NextCollector
    \/ StartsUnseen
    \/ CollectorReturns
    \/ ServerShutdown
    \/ ListenAndServe
    \/ ServeReturns
    \/ GroupWait

SpecProgram == InitProgram /\ [][NextProgram]_vars

\* The scheduler runs every goroutine that can take a step, those of the
\* Collector and the three of the group.  What the engine does and whether a
\* signal ever comes is under no obligation.
FairProgram ==
    /\ SpecProgram
    /\ WF_vars(Run)
    /\ WF_vars(WatchCtxDone)
    /\ WF_vars(WatchEvent)
    /\ WF_vars(WatchClosed)
    /\ WF_vars(WatchErr)
    /\ WF_vars(Wait)
    /\ WF_vars(MonitorCtxDone)
    /\ \A i \in TaskIds : WF_vars(TaskStart(i))
    /\ \A i \in TaskIds : WF_vars(TaskCtxDone(i))
    /\ WF_vars(CollectorReturns)
    /\ WF_vars(ServerShutdown)
    /\ WF_vars(ListenAndServe)
    /\ WF_vars(ServeReturns)
    /\ WF_vars(GroupWait)

-----------------------------------------------------------------------------
(* Claims about LogsFilterReader, checked under SpecFilter                  *)

IsPrefix(s, t) == Len(s) <= Len(t) /\ s = SubSeq(t, 1, Len(s))

\* The payload bytes of the frames the reader's flags select, in arrival order.
SelectedPayload(fs, includeStdout, includeStderr) ==
    Flatten([i \in 1..Len(fs) |->
        IF \/ fs[i][1] = StdoutSelector /\ includeStdout
           \/ fs[i][1] = StderrSelector /\ includeStderr
        THEN PayloadOf(i, fs[i][2])
        ELSE <<>>])

\* No Read call has been made yet.
Unread == r.rc = SourceBytes(frames, cut) /\ r.cur = 0 /\ lastErr = "nil"

\* The source stops 1 to 7 bytes into the header of its last frame.
EndsInsideHeader ==
    /\ frames # <<>>
    /\ cut > frames[Len(frames)][2]
    /\ cut < frames[Len(frames)][2] + HeaderLen

\* C8: for a well-formed frame sequence read by a non-TTY LogsFilterReader,
\* whatever the buffer sizes and the source's short reads, the bytes delivered
\* are always a prefix of the selected frames' payloads in arrival order, they
\* are exactly those payloads when Read reports the end of the stream, which
\* is a clean EOF, and no Read returns without data or error (a zero-length
\* frame neither ends a Read early nor is delivered).
C8_SelectedPayloadExactlyOnce ==
    (~r.tty /\ cut = 0) =>
        LET want == SelectedPayload(frames, r.includeStdout, r.includeStderr) IN
        /\ IsPrefix(got, want)
        /\ lastErr # "nil" => (lastErr = "EOF" /\ got = want)
        /\ (lastErr = "nil" /\ ~Unread) => lastN > 0

\* C8 witness: a zero-length frame was passed over and the selected frame
\* after it was delivered in more than one Read, up to the end of the stream.
C8_Witness ==
    /\ ~r.tty /\ cut = 0
    /\ zeroSkips > 0
    /\ lastErr = "EOF"
    /\ Len(got) = MaxPayload
    /\ lastN < Len(got)

\* C9: on a non-TTY LogsFilterReader, a source that ends at a frame boundary
\* makes Read report the clean end-of-stream (EOF), and a source that ends
\* after 1 to 7 bytes of a header makes Read report an error that is not EOF.
C9_CleanEOFOrTruncatedHeader ==
    (~r.tty /\ lastErr # "nil") =>
        /\ cut = 0 => lastErr = "EOF"
        /\ EndsInsideHeader => lastErr = "ErrUnexpectedEOF"

\* C9 witness: Read has delivered a frame and then met a truncated header.
C9_Witness ==
    /\ ~r.tty
    /\ EndsInsideHeader
    /\ got # <<>>
    /\ lastErr = "ErrUnexpectedEOF"

\* C10: in TTY mode every source byte counts as stdout: with includeStdout the
\* output is the source bytes unchanged, without it the output is empty,
\* whatever includeStderr is.
C10_TTYBytesAreStdout ==
    r.tty =>
        IF r.includeStdout
        THEN /\ IsPrefix(got, SourceBytes(frames, cut))
             /\ lastErr # "nil" => got = SourceBytes(frames, cut)
        ELSE got = <<>>

-----------------------------------------------------------------------------
(* Claims about GetContainerLogs and handleLogs, checked under SpecService  *)

\* the service has been called and has returned
Returned == fetches > 0

\* no log file can be found for the container
StoredNowhere ==
    /\ ContainerName \notin disk.logs
    /\ impl = "Service" =>
          \/ ContainerName \notin DOMAIN disk.index
          \/ disk.index[ContainerName] \notin disk.logs

SelectedText(rs, q) ==
    Flatten([i \in 1..Len(rs) |->
                IF \/ rs[i].Stream = StreamTypeStdout /\ q.IncludeStdout
                   \/ rs[i].Stream = StreamTypeStderr /\ q.IncludeStderr
                THEN rs[i].Log ELSE <<>>])

\* io.ReadAll of the Service's pipe over the NDJSON bytes b
RECURSIVE ReadAllRecords(_, _)
ReadAllRecords(b, q) ==
    LET d == Decode(b) IN
    IF d.err # "nil" THEN <<>>
    ELSE (IF IsIncluded(d.rec, q) THEN d.rec.Log ELSE <<>>) \o ReadAllRecords(d.rest, q)

\* io.ReadAll of a LogsFilterReader
RECURSIVE ReadAllReader(_)
ReadAllReader(rd) ==
    LET res == ReaderRead(rd, MaxBuf, MaxBuf, FALSE) IN
    IF res.err # "nil" THEN res.data ELSE res.data \o ReadAllReader(res.rd)

\* what the live path delivers for the log and the query of the request
LiveOutput ==
    IF impl = "Service" THEN ReadAllRecords(EncodeRecords(recs), query)
    ELSE ReadAllReader(LiveLogsReader(Mux(frames), query))

\* C3: GetContainerLogs calls Storage.Open only when the monitor's fetch
\* failed with the container-not-found error: on any other fetch error it
\* returns an error at once and on a successful fetch it returns the live
\* stream, and in both cases Storage.Open is never called.
C3_StorageOnlyOnNotFound ==
    Returned =>
        /\ fetches = 1
        /\ docker = "failing" => (ret.err # Nil /\ reading = "none" /\ opens = 0)
        /\ docker = "live" => (ret.err = Nil /\ source = "docker" /\ opens = 0)
        /\ docker = "absent" => (opens = 1 /\ source # "docker")

C3_Witness ==
    /\ Returned
    /\ impl = "Service"
    /\ docker = "failing"
    /\ ContainerName \in disk.logs /\ disk.denied = {}
    /\ opens = 0
    /\ ret.err # Nil

\* C4: when the monitor reports container-not-found and Storage.Open finds
\* no log either, GetContainerLogs returns no stream and an error that
\* errors.As still recognises as container-not-found.
C4_NowhereIsNotFound ==
    (Returned /\ docker = "absent" /\ StoredNowhere) =>
        /\ ret.err # Nil
        /\ reading = "none" /\ source = "none"
        /\ IsContainerNotFound(ret.err)
        /\ opens = 1

C4_Witness ==
    /\ Returned
    /\ impl = "Service"
    /\ docker = "absent"
    /\ StoredNowhere
    /\ ContainerName \in DOMAIN disk.index
    /\ IsContainerNotFound(ret.err)

\* C5: when the monitor reports container-not-found and storage holds the
\* container's records, the stream of the Service is the text of the stored
\* records whose channel the query selects, concatenated in stored order,
\* for every combination of the two flags.
C5_StoredReplayIsSelectedText ==
    (impl = "Service" /\ source = "storage") =>
        /\ docker = "absent"
        /\ IsPrefix(got, SelectedText(recs, query))
        /\ lastErr # "nil" => (lastErr = "EOF" /\ got = SelectedText(recs, query))

C5_Witness ==
    /\ impl = "Service" /\ source = "storage"
    /\ lastErr = "EOF"
    /\ got # <<>>
    /\ Len(got) < Len(SelectedText(recs, SomeQuery(TRUE, TRUE)))
    /\ \E i \in 1..Len(got) : got[i] = Newline

\* C6: for the same log and the same flags the stored replay delivers the
\* bytes the live path delivers.
C6_StoredReplayEqualsLive ==
    (source = "storage" /\ lastErr # "nil") =>
        /\ lastErr = "EOF"
        /\ got = LiveOutput

-----------------------------------------------------------------------------
(* Claims about the Collector, checked under SpecCollector and             *)
(* FairCollector                                                           *)

\* the tasks that have not returned
Running == {i \in 1..Len(tasks) : tasks[i].pc # "done"}

\* C1: Run does not return while a capture task it spawned is still
\* running: when Run has returned, every task spawned by discovery or by the
\* watch loop has returned, and the counter of the wait group is the number
\* of tasks still running.
C1_RunOutlivesItsTasks ==
    /\ wg = Cardinality(Running)
    /\ cpc = "returned" => Running = {}

C1_Witness ==
    /\ cpc = "returned"
    /\ Len(tasks) = MaxListed + MaxEvents
    /\ Running = {}
    /\ runErr = Wrapf("watch containers", ContextCanceled)

\* C2: once the context passed to Run has been cancelled, the watch loop
\* leaves its select, every capture task returns and Run returns.
C2_CancelLeadsToReturn ==
    (cpc # "idle" /\ parentCancelled) ~> (cpc = "returned" /\ Running = {})

C2_Witness ==
    /\ parentCancelled
    /\ cpc = "returned"
    /\ runErr = Wrapf("watch containers", ContextCanceled)
    /\ mon = "closed"
    /\ Len(tasks) > 0

-----------------------------------------------------------------------------
(* Claims about the ndjsonWriter and the record codec, checked under       *)
(* SpecWriter                                                              *)

\* the records a reader decodes from the bytes b, up to the first error
RECURSIVE DecodeAll(_)
DecodeAll(b) ==
    LET d == Decode(b) IN
    IF d.err # "nil" THEN <<>> ELSE <<d.rec>> \o DecodeAll(d.rest)

\* the complete lines of s, each with its newline
RECURSIVE CompleteLines(_)
CompleteLines(s) ==
    IF \A i \in 1..Len(s) : s[i] # Newline THEN <<>>
    ELSE LET k == CHOOSE i \in 1..Len(s) :
                      s[i] = Newline /\ \A j \in 1..(i - 1) : s[j] # Newline
         IN  <<SubSeq(s, 1, k)>> \o CompleteLines(SubSeq(s, k + 1, Len(s)))

\* the bytes of s after its last newline
RECURSIVE Unterminated(_)
Unterminated(s) ==
    IF s = <<>> \/ s[Len(s)] = Newline THEN <<>>
    ELSE Append(Unterminated(SubSeq(s, 1, Len(s) - 1)), s[Len(s)])

Written == SubSeq(wInput, 1, wPos)

\* C11: round trip of the codec: a line encoded by the writer and decoded
\* again gives a record with the writer's channel and the text of the line,
\* and with the timestamp of the line's leading token when it has one: the
\* records decoded from the writer's output are the records it emitted.
C11_RoundTrip ==
    DecodeAll(wOut) = emitted

\* C12: whatever the split of the bytes over the Write calls, the records
\* emitted are one per newline-terminated line written, in order, the
\* newline kept in the text; the bytes after the last newline stay in the
\* buffer and give no record until Close, which emits them as one more
\* record exactly when there are any.
C12_OneRecordPerLine ==
    LET lines == CompleteLines(Written)
        tail == Unterminated(Written)
        flushed == IF wClosed /\ tail # <<>> THEN <<tail>> ELSE <<>>
    IN  /\ wr.stream # "" =>
              emitted = [i \in 1..Len(lines \o flushed) |->
                            EmitRecord(wr.stream, (lines \o flushed)[i])]
        /\ wr.buf = IF wClosed THEN <<>> ELSE tail
        /\ \A i \in 1..Len(lines) :
              LET log == emitted[i].Log IN log # <<>> /\ log[Len(log)] = Newline

C12_Witness ==
    /\ wClosed
    /\ wWrites = 3
    /\ wPos = MaxInput
    /\ Len(emitted) = 2
    /\ emitted[1].Log = <<LetterA, Newline>>
    /\ emitted[2].Log = <<LetterA, LetterA>>

-----------------------------------------------------------------------------
(* Claims about LogStorage                                                  *)

Opened == sret.op = "open" /\ sret.err = Nil /\ sret.id # ""

\* a log file is kept under the key k
HasLog(k) == k \in DOMAIN sdisk /\ sdisk[k].log # "none"

\* C13, as stated: after a successful Create(w), and until a later Create
\* reuses w's name, Open(w.ID) and Open(w.Name) both succeed and return the
\* log keyed by w.ID.
C13_OpenReturnsCreated ==
    (sver = "index" /\ sret.op = "open") =>
        \A w \in fresh :
            sret.arg \in {w.ID, w.Name} => Opened /\ sret.id = w.ID

\* C13, amended: after a successful Create(w), and until a later Create
\* reuses w's name, Open(w.ID) succeeds and returns the log keyed by w.ID,
\* and so does Open(w.Name) unless a log is kept under an ID equal to
\* w.Name.
C13_OpenReturnsCreatedUnlessShadowed ==
    (sver = "index" /\ sret.op = "open") =>
        \A w \in fresh :
            /\ sret.arg = w.ID => Opened /\ sret.id = w.ID
            /\ (sret.arg = w.Name /\ ~HasLog(w.Name)) => Opened /\ sret.id = w.ID

C13_Witness ==
    /\ sver = "index" /\ Opened
    /\ \E w \in fresh : sret.arg = w.Name /\ sret.id = w.ID /\ ~HasLog(w.Name)
    /\ \E w \in fresh : HasLog(w.Name)

\* the argument names a log: one kept under it, or one the entry of its
\* name leads to
Matches(arg) ==
    \/ HasLog(arg)
    \/ IF sver = "index"
       THEN arg \in DOMAIN sindex /\ HasLog(sindex[arg])
       ELSE sdisk[arg].meta.state = "ok" /\ HasLog(sdisk[arg].meta.Name)

\* C14: Open returns the container-not-found error exactly when the
\* argument names no log, by ID or through its name entry; every other
\* failure to open a log file comes back as an error that is not not-found.
C14_NotFoundExactlyWhenNoLog ==
    sret.op = "open" =>
        /\ IsContainerNotFound(sret.err) => ~Matches(sret.arg)
        /\ (sver = "index" /\ ~Matches(sret.arg)) => IsContainerNotFound(sret.err)
        /\ ~Opened => sret.err # Nil

\* C15: a workload whose Create succeeded in an earlier process can be
\* opened by name after a restart followed by LoadExistingMappings.
C15_ReloadedNamesOpen ==
    (sret.op = "open" /\ sret.after = "reload") =>
        \A w \in earlier : sret.arg = w.Name => sret.err = Nil

\* the entries of the root whose metadata LoadExistingMappings can decode
ValidEntries == {k \in DOMAIN sdisk : sdisk[k].meta.state = "ok"}

\* C16: LoadExistingMappings over a readable root returns no error whatever
\* the state of the entries' metadata; afterwards every entry with valid
\* metadata has its name mapped to the ID of such an entry, and every other
\* name is mapped as it was before.
C16_LoadSkipsCorrupted ==
    [][(LoadExistingMappings /\ sroot = "ok") =>
          /\ sret'.err = Nil
          /\ \A k \in ValidEntries :
                /\ sdisk[k].meta.Name \in DOMAIN sindex'
                /\ \E j \in ValidEntries :
                      /\ sdisk[j].meta.Name = sdisk[k].meta.Name
                      /\ sindex'[sdisk[k].meta.Name] = sdisk[j].meta.ID
          /\ \A n \in DOMAIN sindex' :
                (\A k \in ValidEntries : sdisk[k].meta.Name # n) =>
                    n \in DOMAIN sindex /\ sindex'[n] = sindex[n]]_vars

C16_Witness ==
    /\ sret.op = "load" /\ sret.err = Nil /\ sret.after = "reload"
    /\ sdisk["id1"].meta.state = "bad" /\ sdisk["id1"].log = "ok"
    /\ sdisk["id2"].meta.state = "ok"
    /\ sindex = Store(<<>>, sdisk["id2"].meta.Name, "id2")

-----------------------------------------------------------------------------
(* More claims about the Collector, checked under SpecCollector and         *)
(* FairCollector, and about collectContainerLogs, checked under SpecCapture *)

\* errors.Is(err, cause) for the causes of the model: cause is err or what is
\* left of err when some of its layers are taken off
Wraps(err, cause) == \E k \in 0..Len(err) : Drop(err, k) = cause

\* C17: when ListContainers fails, Run leaves with an error that wraps the
\* failure, no capture task has been spawned, Storage.Create has not been
\* called and the goroutine of WatchContainersStart has not been started.
C17_ListFailureEndsRun ==
    (cpc # "idle" /\ listing.err) =>
        /\ cpc \in {"shutdown", "returned"}
        /\ \E e \in {DaemonError, ContextCanceled} : Wraps(runErr, e)
        /\ tasks = <<>> /\ wg = 0
        /\ created = {}
        /\ seen = <<>>
        /\ mon = "off"

C17_Witness ==
    /\ cpc = "returned"
    /\ listing.err /\ ~parentCancelled
    /\ Wraps(runErr, DaemonError)
    /\ mon = "off"

\* C18: while Run is watching and its context is not done, once the monitor
\* has put an error on the error channel, Run leaves the watch by calling
\* cancel and with an error that wraps the error signalled.
C18_WatchErrorIsReturned ==
    [][(/\ cpc = "watching"
        /\ errBuf # Nil
        /\ ~CtxDone(parentCancelled, cancelCalled)
        /\ cpc' # "watching") =>
            (cancelCalled' /\ Wraps(runErr', errBuf))]_vars

\* the allow-list is empty or holds the name
Allowed(name) ==
    options = <<>> \/ name \in {options[i] : i \in DOMAIN options}

\* the names of ns that are allowed, in order
RECURSIVE AllowedOnly(_)
AllowedOnly(ns) ==
    IF ns = <<>> THEN <<>>
    ELSE (IF Allowed(Head(ns)) THEN <<Head(ns)>> ELSE <<>>) \o AllowedOnly(Tail(ns))

\* C19: the capture tasks are, in order, the workloads found at discovery or
\* reported by a start event whose name the allow-list admits (every name
\* when it is empty); Storage.Create is called with no other name.
C19_TasksAreTheAllowed ==
    /\ [i \in 1..Len(tasks) |-> tasks[i].Name] = AllowedOnly(seen)
    /\ \A n \in created : Allowed(n)

C19_Witness ==
    /\ options = <<"web">>
    /\ seen = <<"db", "web", "db">>
    /\ Len(tasks) = 1
    /\ created = {"web"}
    /\ cpc = "returned"

\* the call got its log file: it did not return before io.Copy
Captured == cap.pc = "done" /\ ~\E e \in {DaemonError, PathError("EACCES")} : Wraps(cap.err, e)

\* the live stream ended with io.EOF and was not cut short by its context
EndsNaturally == cap.ends = "eof" /\ ~Wraps(cap.err, ContextCanceled)

-----------------------------------------------------------------------------
(* More claims about handleLogs, checked under SpecService                  *)

\* C22: handleLogs answers a container-not-found error of GetContainerLogs
\* with 404 and every other error with 500.
C22_OtherErrorsAre500 ==
    (entry = "http" /\ ret.err # Nil) =>
        status = IF IsContainerNotFound(ret.err) THEN StatusNotFound
                 ELSE StatusInternalServerError

\* what the parameters of the request ask for, of the log the source holds
WantedByParams ==
    IF impl = "Service"
    THEN SelectedText(recs, SomeQuery(params[1] = "1", params[2] # "0"))
    ELSE SelectedPayload(frames, params[1] = "1", params[2] # "0")

\* C23: the body of GET /logs/{name} holds stdout if and only if the stdout
\* parameter is "1" and stderr unless the stderr parameter is "0", whether
\* the log comes from the live container or from storage.
C23_ParamsSelectChannels ==
    (entry = "http" /\ reading # "none") =>
        /\ query.IncludeStdout = (params[1] = "1")
        /\ query.IncludeStderr = (params[2] # "0")
        /\ lastErr # "nil" => (lastErr = "EOF" /\ got = WantedByParams)

-----------------------------------------------------------------------------
(* Claims about closing the stream of GetContainerLogs, checked under       *)
(* FairStream                                                               *)

\* C24: once the caller has closed the stream, the source is closed exactly
\* once: Close is never called on it twice, however often the caller calls
\* Close, and it is called eventually, even when the source stays silent or
\* delivers only records the query does not select.
C24_SourceClosedExactlyOnce ==
    /\ [](rcCloses <= 1)
    /\ (closes > 0) ~> (rcCloses = 1)

-----------------------------------------------------------------------------
(* More claims about Collector.Run, checked under SpecCollector             *)

\* C21: the step that ends a capture task, by whatever failure, changes
\* nothing else: Run stays where it is with no error of its own and no
\* cancel, the watch goes on, and every other task is as it was.
C21_TaskFailureIsContained ==
    [][\A i \in 1..Len(tasks) :
          (tasks[i].pc # "done" /\ tasks'[i].pc = "done") =>
              /\ cpc' = cpc
              /\ runErr' = runErr
              /\ cancelCalled' = cancelCalled
              /\ mon' = mon
              /\ errBuf' = errBuf
              /\ \A j \in 1..Len(tasks) : j # i => tasks'[j] = tasks[j]]_vars

\* a task failed in FetchContainerLogs while Run watches and another copies
C21_Witness ==
    /\ cpc = "watching"
    /\ ~cancelCalled
    /\ ~parentCancelled
    /\ \E i, j \in 1..Len(tasks) :
          /\ i # j
          /\ tasks[i].pc = "done"
          /\ tasks[i].Name \notin created
          /\ tasks[j].pc = "copying"

-----------------------------------------------------------------------------
(* Claims about the log file under repeated Create, checked under           *)
(* SpecLogFile                                                              *)

\* C25: Create for a container that already has persisted records discards
\* none of them: whatever was written to the log file, through any file
\* Create returned, is what Open reads, in the order it was written.
C25_CreateKeepsRecords == lfile = lwritten

-----------------------------------------------------------------------------
(* More claims about LogStorage, checked under SpecStorage                  *)

\* a Create that returns an error leaves the index as it was, one that
\* returns a file has made the index lead from its name to its ID
IndexFollowsCreate ==
    (sver = "index" /\ sret'.op = "create") =>
        IF sret'.err = Nil
        THEN \E n \in DOMAIN sindex' : sindex' = Store(sindex, n, sret'.arg)
        ELSE sindex' = sindex

\* Open of a name has led to the ID of a container of that name
OpenOfNameIsOfName ==
    (sver = "index" /\ Opened /\ sret.arg \in {w.Name : w \in Workloads}) =>
        \E w \in Workloads : w.Name = sret.arg /\ w.ID = sret.id

\* Open of the ID of a container Create succeeded for returns its log
OpenOfOldID ==
    (sver = "index" /\ sret.op = "open") =>
        \A w \in succeeded : sret.arg = w.ID => Opened /\ sret.id = w.ID

\* C26: under any interleaving of Create and Open, the index leads from
\* each name to the ID of the last Create that completed for it, Open of a
\* name never leads to an ID that was not created under that name, and the
\* log of an earlier container of the name is still returned by Open of
\* its ID.
C26_IndexIsLastCompletedCreate ==
    /\ [][IndexFollowsCreate]_vars
    /\ []OpenOfNameIsOfName
    /\ []OpenOfOldID

-----------------------------------------------------------------------------
(* Claims about the phases of Collector.Run, checked under SpecCollector    *)

\* the watch subscription starts in the step that ends discovery, with the
\* tasks of the listed containers spawned; cancel is called on entering
\* shutdown and nowhere else
WatchAfterDiscovery ==
    /\ (mon = "off" /\ mon' # "off") =>
          /\ cpc = "idle" /\ cpc' = "watching"
          /\ tasks' = Spawn(<<>>, Watched(options, listing.containers))
          /\ wg' = Len(tasks')
    /\ (~cancelCalled /\ cancelCalled') => (cpc # "shutdown" /\ cpc' = "shutdown")
    /\ (cpc # "shutdown" /\ cpc' = "shutdown") => cancelCalled'

ListedOnce ==
    \A i, j \in 1..Len(listing.containers) :
        listing.containers[i] = listing.containers[j] => i = j

\* C29: at any time at most one capture task is running per container,
\* also when a container of the discovery listing starts again, or starts
\* several times.
C29_OneTaskPerContainer ==
    ListedOnce =>
        \A i, j \in 1..Len(tasks) :
            (tasks[i].pc # "done" /\ tasks[j].pc # "done"
                /\ tasks[i].Name = tasks[j].Name) => i = j

-----------------------------------------------------------------------------
(* More claims about collectContainerLogs, checked under SpecCapture        *)

\* C30: a capture task that has returned, by whatever path, has closed the
\* live stream it got from FetchContainerLogs and the file it got from
\* Storage.Create; Run returns only after every task has returned.
C30_TaskClosesWhatItOpened ==
    cap.pc = "done" => (cap.rc # "open" /\ cap.f # "open")

\* a task that got both, copied some bytes and was stopped by cancellation
C30_Witness ==
    /\ cap.pc = "done"
    /\ capCtxDone
    /\ cap.err = Wrapf("copy logs to file", ContextCanceled)
    /\ cap.written # <<>>
    /\ cap.rc = "closed"
    /\ cap.f = "closed"

-----------------------------------------------------------------------------
(* More claims about LogsFilterReader, checked under SpecFilter             *)

\* how far into the source the reader is
Position == Len(SourceBytes(frames, cut)) - Len(r.rc)

\* where the first j frames of the source end
Boundary(j) == Len(Mux(Take(frames, j)))

\* C31: between the Reads of a non-TTY LogsFilterReader the source stands at
\* a frame boundary, or inside the payload of a selected frame with exactly
\* the rest of that payload still to come; at a boundary what was delivered
\* is the payload of the selected frames before it and nothing of the
\* others, and a source read to its end has given every selected frame.
C31_HeaderAtFrameBoundary ==
    ~r.tty =>
        /\ lastErr = "nil" =>
              \E j \in 0..Len(frames) : Position + r.cur = Boundary(j)
        /\ \A j \in 0..Len(frames) :
              (lastErr = "nil" /\ r.cur = 0 /\ Position = Boundary(j)) =>
                  got = SelectedPayload(Take(frames, j), r.includeStdout,
                                        r.includeStderr)
        /\ (cut = 0 /\ lastErr # "nil") =>
              got = SelectedPayload(frames, r.includeStdout, r.includeStderr)

\* a frame that is not selected was skipped with its payload and the
\* selected frame after it delivered whole
C31_Witness ==
    /\ ~r.tty /\ cut = 0
    /\ Len(frames) = 2
    /\ frames[1][2] = MaxPayload
    /\ ~IsIncludedFrame(r, frames[1][1])
    /\ IsIncludedFrame(r, frames[2][1])
    /\ got = PayloadOf(2, MaxPayload)
    /\ lastErr = "nil"
    /\ Position = Boundary(2)

\* the source stops inside the payload of its last frame
EndsInsidePayload ==
    /\ frames # <<>>
    /\ cut > 0
    /\ cut <= frames[Len(frames)][2]

\* C35: on a non-TTY LogsFilterReader a source that ends inside the payload
\* of a frame makes Read end with an error that is not the clean
\* end-of-stream, whether the frame is selected or skipped.
C35_TruncatedPayloadIsError ==
    (~r.tty /\ EndsInsidePayload /\ lastErr # "nil") => lastErr # "EOF"

-----------------------------------------------------------------------------
(* Claims about decoding a stored log, checked under SpecDecode             *)

\* record j is in the file up to its closing brace, and can be decoded
Intact(j) ==
    /\ Len(EncodeRecords(Take(recs, j))) - 1 <= Len(StoredBytes(recs, cut))
    /\ recs[j].Timestamp # NotATime

\* the records before the first that is truncated or malformed
Preceding ==
    Take(recs, Cardinality({j \in 1..Len(recs) : \A i \in 1..j : Intact(i)}))

\* the file holds nothing after those records
EndsAfterRecord ==
    Len(StoredBytes(recs, cut)) <= Len(EncodeRecords(Preceding))

\* C32: the stream of GetContainerLogs over a stored log ends cleanly when
\* the file ends right after a complete record; when a record is truncated
\* or malformed it ends with an error that is not the end-of-stream; in both
\* cases after the selected text of all the records before.
C32_DecodeEndsCleanOrFails ==
    (reading = "ndjson" /\ lastErr # "nil") =>
        /\ got = SelectedText(Preceding, query)
        /\ lastErr = "EOF" <=> EndsAfterRecord

\* a selected record was delivered and the next one is cut short
C32_Witness ==
    /\ reading = "ndjson"
    /\ Len(recs) = 2
    /\ Len(Preceding) = 1
    /\ recs[2].Timestamp # NotATime
    /\ got = recs[1].Log
    /\ got # <<>>
    /\ lastErr = "ErrUnexpectedEOF"

-----------------------------------------------------------------------------
(* Claims about FetchContainerLogs, checked under SpecFetch                 *)

\* the payload bytes the frames fs of the bytes b carry on the channel sel
RECURSIVE ChannelBytes(_, _, _)
ChannelBytes(fs, b, sel) ==
    IF fs = <<>> THEN <<>>
    ELSE (IF Head(fs)[1] = sel THEN Take(b, Head(fs)[2]) ELSE <<>>)
         \o ChannelBytes(Tail(fs), Drop(b, Head(fs)[2]), sel)

\* the lines of s, the last one with or without its newline
Lines(s) ==
    CompleteLines(s) \o (IF Unterminated(s) = <<>> THEN <<>> ELSE <<Unterminated(s)>>)

\* the bytes s less the timestamp the daemon puts in front of each line
WithoutTimestamps(s) ==
    Flatten([i \in 1..Len(Lines(s)) |-> EmitRecord("", Lines(s)[i]).Log])

\* the text of the records rs of the channel st
TextOf(rs, st) ==
    Flatten([i \in 1..Len(rs) |-> IF rs[i].Stream = st THEN rs[i].Log ELSE <<>>])

\* the channel the query selects
Selected == IF query.IncludeStdout THEN StdoutSelector ELSE StderrSelector

\* C33: for a framed live source the text GetContainerLogs delivers for one
\* channel is that channel's bytes of the source in their order of arrival,
\* less the timestamps of the lines, whatever the frames and the line
\* splits are.
C33_ChannelOrderKept ==
    (docker = "live" /\ reading = "ndjson" /\ lastErr # "nil") =>
        /\ lastErr = "EOF"
        /\ got = WithoutTimestamps(ChannelBytes(frames, wInput, Selected))

\* C36: for every finite live source, TTY or not, every byte of the source
\* is in the text of a record FetchContainerLogs has emitted when the stream
\* ends, the bytes after the last newline included; only the timestamps of
\* the lines are taken out of the text.
C36_EveryByteInSomeRecord ==
    reading = "ndjson" =>
        /\ TextOf(emitted, StreamTypeStdout)
              = WithoutTimestamps(ChannelBytes(frames, wInput, StdoutSelector))
        /\ TextOf(emitted, StreamTypeStderr)
              = WithoutTimestamps(ChannelBytes(frames, wInput, StderrSelector))

\* C34: once Run has returned while its caller has not cancelled the context,
\* no error signalled by the monitor of the engine's event stream is left
\* undelivered on the error channel: Run has returned an error wrapping it.
C34_EngineErrorReachesCaller ==
    (cpc = "returned" /\ ~parentCancelled /\ errBuf # Nil) => Wraps(runErr, errBuf)

\* C38: a request for a name that is neither live nor in storage is answered
\* with 404 whatever its stdout and stderr parameters are.
C38_UnknownNameIs404 ==
    (entry = "http" /\ docker = "absent" /\ disk.logs = {}) => status = StatusNotFound

\* the workload Open(name) resolves to with the index ix over the disk d
ResolvedID(d, ix, name) == LogStorageOpenID(DiskView(d, ix), name)

\* w was created last of its name by this process, another workload of the
\* same name was created too, and both are persisted as Create left them
SharesName(w) ==
    /\ w \in fresh
    /\ sdisk[w.ID] = [meta |-> MetaOf(w), log |-> "ok"]
    /\ \E o \in succeeded :
          /\ o.Name = w.Name /\ o.ID # w.ID
          /\ sdisk[o.ID] = [meta |-> MetaOf(o), log |-> "ok"]

\* C39: when the process restarts with several persisted workloads of one
\* name, of which Open(name) resolved to the one created last, the index that
\* LoadExistingMappings rebuilds from the root directory makes Open(name)
\* resolve to that same workload.
C39_ReloadKeepsLatest ==
    [][(sver = "index" /\ sroot = "ok" /\ sret'.op = "restart") =>
          \A w \in Workloads :
              (SharesName(w) /\ ResolvedID(sdisk, sindex, w.Name) = w.ID) =>
                  ResolvedID(sdisk', LoadEntries(sindex', sdisk', SortedIDs), w.Name) = w.ID]_vars

-----------------------------------------------------------------------------
(* Claims about run and the Collector in it, checked under FairProgram      *)

\* how many members of the sequence s are x
Count(s, x) == Cardinality({i \in DOMAIN s : s[i] = x})

\* how many capture tasks there are for workloads named name
TasksOf(name) == Cardinality({i \in DOMAIN tasks : tasks[i].Name = name})

\* C37: a workload that passes the name filter and has started after the
\* listing was taken and before the subscription to start events gets a
\* capture task sooner or later, unless the context of Run is cancelled:
\* there come to be more tasks for its name than workloads of that name
\* listed or reported by an event.
C37_LateStarterIsCaptured ==
    \A name \in Names :
        [](((Count(unseen, name) > 0 /\ ShouldWatchContainer(options, name)
                /\ cpc = "watching")
            => <>(parentCancelled \/ TasksOf(name) > Count(seen, name))))

\* C40: once Collector.Run has returned, the server is shut down and run
\* returns, sooner or later.
C40_ServerStopsAfterCollector ==
    [](cpc = "returned" => <>(srv = "closed" /\ g.waited))

=============================================================================
